---- MODULE Spec2Model ----
(***************************************************************************)
(* The RohlikCZ API client (custom_components/rohlikcz/rohlik_api.py):     *)
(* login(), the endpoint aggregator get_data() and the cart, search and    *)
(* shopping-list operations; the account facade that keeps the snapshot    *)
(* and its subscribers (custom_components/rohlikcz/hub.py); and, from      *)
(* custom_components/rohlikcz/sensor.py, the parser of the delivery        *)
(* announcement and the sensor that refreshes the account on a timer; as   *)
(* a state machine.                                                        *)
(*                                                                         *)
(* One action is the code between two suspension points (await): the       *)
(* HTTP request issued there, the vendor's reply, and the synchronous code *)
(* that handles the reply.  The vendor's reply is the input of the action. *)
(* Exceptions are modelled by their class names and handlers by the set of *)
(* classes they catch.                                                     *)
(***************************************************************************)
EXTENDS Integers, Sequences, FiniteSets, TLC

(***************************************************************************)
(* Bounds of the model.                                                    *)
(***************************************************************************)
\* number of top-level operations started on the client in one behaviour
MaxCalls == 2

(***************************************************************************)
(* Values.                                                                 *)
(***************************************************************************)
\* Every value that may be None is a tagged tuple, so that any two of them
\* can be compared.
\* Python None
NULL == << "None" >>
\* a key that a JSON object does not carry
MISSING == << "missing" >>
\* no exception pending
NoExc == "no exception"
\* what an operation handed to its caller: nothing (yet), or a value
NoReturn == << "nothing returned" >>
Returned(value) == << "returned", value >>

\* the asyncio tasks that call the client
Tasks == {"t1", "t2"}
\* the task that runs the calls of Spec, one after the other
SeqTasks == {"t1"}

\* self.endpoints, in insertion order (the order the loop handles them)
EndpointOrder ==
    << "delivery", "next_order", "announcements", "bags", "timeslot",
       "last_order", "premium_profile", "next_delivery_slot",
       "delivery_announcements" >>

Endpoints == { EndpointOrder[i] : i \in 1..Len(EndpointOrder) }

\* the keys of the mapping get_data() builds
SnapshotKeys == {"login"} \cup Endpoints \cup {"cart"}

\* the vendor's ids
UserIds == { << "user", 11 >>, << "user", 12 >> }
AddressIds == { << "address", 21 >>, << "address", 22 >> }

\* vendor status codes embedded in the JSON body of the login reply
VendorStatuses == {200, 400, 401, 402, 500}

(***************************************************************************)
(* The vendor's replies.                                                   *)
(*   transport : session.<verb> raised a RequestException                  *)
(*   http      : a reply with an HTTP error status (raise_for_status)      *)
(*   ok / json : a reply with a JSON body                                  *)
(*   silent    : the vendor never answers                                  *)
(***************************************************************************)
\* a login reply with a JSON body.  The vendor's envelope carries status,
\* messages when the status is not 200, and data.user.id when it is 200 (the
\* account facade reads data.user.id of every login without a default);
\* data.address is an object with an id, null, or not there at all (an
\* account may have no address set)
LoginBodies ==
    [ kind : {"json"}, status : {200}, user : UserIds,
      address : AddressIds \cup {NULL, MISSING} ]
    \cup
    [ kind : {"json"}, status : VendorStatuses \ {200}, user : {MISSING},
      address : {MISSING} ]

LoginReplies ==
    LoginBodies \cup
    { [ kind |-> k, status |-> 0, user |-> MISSING, address |-> MISSING ] :
        k \in {"transport", "silent"} }

\* no reply received so far
NoReply == [ kind |-> "none", status |-> 0, user |-> MISSING, address |-> MISSING ]

GetReplies == {"ok", "http", "transport", "silent"}

\* the decoded JSON body of a successful GET of endpoint e
Body(e) == << "json", e >>

\* one entry of data.items in the vendor's cart reply, keyed by product id
VendorItem(p) ==
    [ productId |-> p, orderFieldId |-> << "orderField", p >>,
      productName |-> << "name", p >>, quantity |-> 1, price |-> 25,
      primaryCategoryName |-> "category", brand |-> "brand" ]

\* the data of the vendor's cart reply: an object without any key (also
\* what cart_content.get("data", {}) makes of a reply without data), a cart
\* with an empty items object, and carts with one and with two items
VendorCarts ==
    { [ k \in {} |-> NULL ],
      [ totalPrice |-> 0, submitConditionPassed |-> FALSE, items |-> << >> ],
      [ totalPrice |-> 25, submitConditionPassed |-> FALSE,
        items |-> << VendorItem(101) >> ],
      [ totalPrice |-> 50, submitConditionPassed |-> TRUE,
        items |-> << VendorItem(101), VendorItem(102) >> ] }

VARIABLES
    user_id,        \* RohlikCZAPI._user_id
    address_id,     \* RohlikCZAPI._address_id
    sessState,      \* every requests.Session created so far: "open" / "closed"
    calls,          \* top-level operations started so far
    op,             \* per task: the operation it runs
    pc,             \* per task: its position in the operation
    session,        \* per task: local variable session
    idx,            \* per task: position of the loop over self.endpoints
    result,         \* per task: local variable result (a mapping)
    reqs,           \* per task: the HTTP requests the invocation issued
    exc,            \* per task: the exception that is propagating
    ret,            \* per task: the value the operation returned
    login_response, \* per task: the reply login() last received
    args,           \* per task: the arguments of the operation
    response,       \* per task: the body of the reply to the operation's request
    data,           \* RohlikAccount.data
    callbacks,      \* RohlikAccount._callbacks
    hubop,          \* per task: the method of RohlikAccount it runs
    hubpc,          \* per task: its position in that method
    hubargs,        \* per task: the arguments of that method
    hubresult,      \* per task: local variable result / searched_product
    hubret,         \* per task: the value the method returned
    hubexc,         \* per task: the exception that left the method
    notified,       \* per task: the callbacks publish_updates() called, in order
    unsub_timer,    \* UpdateSensor._unsub_timer
    timers,         \* the interval timers the sensor asked Home Assistant for
    sensorpc,       \* per task: its position in UpdateSensor.async_update
    next_order_list, \* per task: local variable next_order_list
    entry,          \* the data of the config entry the flow created
    account,        \* what RohlikAccount.__init__ stored of its base_url
    behind          \* the copies of the cart the vendor has changed since

vars == << user_id, address_id, sessState, calls, op, pc, session, idx,
           result, reqs, exc, ret, login_response, args, response,
           data, callbacks, hubop, hubpc, hubargs, hubresult, hubret, hubexc,
           notified, unsub_timer, timers, sensorpc, next_order_list,
           entry, account, behind >>

clientVars == << user_id, address_id >>

\* the locals of an operation of the API client besides those of get_data()
opVars == << args, response >>

\* the state of the account facade and of the tasks inside its methods
hubVars == << data, callbacks, hubop, hubpc, hubargs, hubresult, hubret,
             hubexc, notified >>

\* the state of the update sensor and of the tasks inside its async_update
sensorVars == << unsub_timer, timers, sensorpc, next_order_list >>

\* the config entry, and the account set up from it
setupVars == << entry, account >>

(***************************************************************************)
(* Helpers.                                                                *)
(***************************************************************************)
EmptyMap == [ k \in {} |-> NULL ]

\* result[key] = value
Put(map, key, value) ==
    [ k \in DOMAIN map \cup {key} |-> IF k = key THEN value ELSE map[k] ]

Ended == {"returned", "raised"}

NoParams == << >>

\* an operation called without arguments
NoArgs == << "no arguments" >>

\* no reply body received so far
NoBody == << "no body" >>

\* what became of a request: answered, failed (transport or HTTP error), or
\* never answered
Outcome(reply) ==
    IF reply \in {"http", "transport"} THEN "failed"
    ELSE IF reply = "silent" THEN "unanswered"
    ELSE "answered"

\* the keyword arguments the client passes to session.get / post / delete
\* besides the URL and the payload: none, so requests waits without a limit
RequestTimeout == NULL

\* a request as it goes out: the resource, the session it is sent on, the
\* query parameters built from client state, its timeout, and its outcome
Request(kind, sid, params, reply) ==
    [ kind |-> kind, sid |-> sid, params |-> params,
      timeout |-> RequestTimeout, outcome |-> Outcome(reply) ]

\* the exception classes below requests.exceptions.RequestException
RequestExceptions == {"ConnectionError", "HTTPError"}

\* what `await session.<verb>(...)` followed by raise_for_status() raises
Raised(reply) ==
    IF reply = "transport" THEN "ConnectionError"
    ELSE IF reply = "http" THEN "HTTPError"
    ELSE NoExc

\* `except <classes>:` without a raise in the handler
Caught(e, classes) == IF e \in classes THEN NoExc ELSE e

Init ==
    /\ user_id = NULL
    /\ address_id = NULL
    /\ sessState = << >>
    /\ calls = 0
    /\ op = [ t \in Tasks |-> "none" ]
    /\ pc = [ t \in Tasks |-> "idle" ]
    /\ session = [ t \in Tasks |-> 0 ]
    /\ idx = [ t \in Tasks |-> 0 ]
    /\ result = [ t \in Tasks |-> EmptyMap ]
    /\ reqs = [ t \in Tasks |-> << >> ]
    /\ exc = [ t \in Tasks |-> NoExc ]
    /\ ret = [ t \in Tasks |-> NoReturn ]
    /\ login_response = [ t \in Tasks |-> NoReply ]
    /\ args = [ t \in Tasks |-> NoArgs ]
    /\ response = [ t \in Tasks |-> NoBody ]
    /\ data = EmptyMap
    /\ callbacks = {}
    /\ hubop = [ t \in Tasks |-> "none" ]
    /\ hubpc = [ t \in Tasks |-> "idle" ]
    /\ hubargs = [ t \in Tasks |-> NoArgs ]
    /\ hubresult = [ t \in Tasks |-> NoReturn ]
    /\ hubret = [ t \in Tasks |-> NoReturn ]
    /\ hubexc = [ t \in Tasks |-> NoExc ]
    /\ notified = [ t \in Tasks |-> << >> ]
    /\ unsub_timer = NULL
    /\ timers = << >>
    /\ sensorpc = [ t \in Tasks |-> "idle" ]
    /\ next_order_list = [ t \in Tasks |-> NULL ]
    /\ entry = NULL
    /\ account = NULL
    /\ behind = {}


(***************************************************************************)
(* login()                                                                 *)
(***************************************************************************)
\* every refusal of the vendor taken for invalid credentials
LoginStatusExc_AllInvalid(reply) ==
    IF reply.kind = "transport" THEN "APIRequestFailedError"
    ELSE IF reply.status # 200 THEN "InvalidCredentialsError"
    ELSE NoExc

\* the exception login() raises on the reply, before it stores anything
LoginStatusExc(reply) ==
    IF reply.kind = "transport" THEN "APIRequestFailedError"
    ELSE IF reply.status # 200
         THEN IF reply.status = 401 THEN "InvalidCredentialsError"
              ELSE "RohlikczError"
         ELSE NoExc

\* login_response.get("data", {}).get("address", {}).get("id", None):
\* .get on the null address raises AttributeError
AttributeError == << "raises", "AttributeError" >>

AddressLookup(reply) ==
    IF reply.address = MISSING THEN NULL
    ELSE IF reply.address = NULL THEN AttributeError
    ELSE reply.address

\* the lookup without the handler for AttributeError
AddressExc_Uncaught(cur, reply) ==
    IF cur = NULL /\ AddressLookup(reply) = AttributeError
    THEN "AttributeError"
    ELSE NoExc

\* the exception that leaves the try block around the address lookup
AddressExc(cur, reply) ==
    IF cur = NULL /\ AddressLookup(reply) = AttributeError
    THEN Caught("AttributeError", {"AttributeError"})
    ELSE NoExc

\* the user id of the latest login
StoreUser_Latest(cur, reply) == reply.user

\* self._user_id after a login that passed the status check
StoreUser(cur, reply) == IF cur = NULL THEN reply.user ELSE cur

\* self._address_id after a login that passed the status check
StoreAddress(cur, reply) ==
    IF cur = NULL /\ AddressLookup(reply) # AttributeError
    THEN AddressLookup(reply)
    ELSE cur

\* a transport failure of the login request absorbed like that of an endpoint
LoginExc_TransportAbsorbed(cur, reply) ==
    IF reply.kind = "transport" THEN NoExc
    ELSE IF LoginStatusExc(reply) # NoExc THEN LoginStatusExc(reply)
    ELSE AddressExc(cur, reply)

\* the exception login() ends with (NoExc: it returns login_response)
LoginExc(cur, reply) ==
    IF LoginStatusExc(reply) # NoExc THEN LoginStatusExc(reply)
    ELSE AddressExc(cur, reply)

\* `await self.login(session)` run by task t on the vendor's reply
Login(t, reply) ==
    /\ reqs' = [ reqs EXCEPT ![t] =
                   Append(@, Request("login", session[t], NoParams, reply.kind)) ]
    /\ login_response' = [ login_response EXCEPT ![t] = reply ]
    /\ IF reply.kind # "silent" /\ LoginStatusExc(reply) = NoExc
       THEN /\ user_id' = StoreUser(user_id, reply)
            /\ address_id' = StoreAddress(address_id, reply)
       ELSE UNCHANGED clientVars

(***************************************************************************)
(* get_cart_content(): the GET and the normalisation of the reply          *)
(***************************************************************************)
\* the exception that leaves get_cart_content when the GET raised e
CartExc(e) == IF e \in RequestExceptions THEN "ValueError" ELSE e

\* one normalised line item
ProductInfo(item) ==
    [ id |-> item.productId, cart_item_id |-> item.orderFieldId,
      name |-> item.productName, quantity |-> item.quantity,
      price |-> item.price, category_name |-> item.primaryCategoryName,
      brand |-> item.brand ]

\* obj.get(key, default)
Get(obj, key, default) == IF key \in DOMAIN obj THEN obj[key] ELSE default

\* "total_items" left at zero
TotalItems_Zero(cart_data) == 0

\* "total_items": len(data.get("items", {}))
TotalItems(cart_data) == Len(Get(cart_data, "items", << >>))

\* cart_info built from the data of the reply
\* The vendor has served a change of the cart: the copies of the cart taken
\* before it are behind the vendor's cart, namely the cart a get_data() on
\* its way has fetched already, and the stored snapshot
ServedChange(cur) ==
    cur \cup { u \in Tasks : /\ hubpc[u] = "update" /\ op[u] = "get_data"
                             /\ Get(result[u], "cart", NULL) # NULL }
        \cup (IF data = EmptyMap THEN {} ELSE {"data"})

\* self.data = await self._rohlik_api.get_data(): the stored snapshot is as
\* old as what the get_data() of task t fetched
StoredSnapshot(cur, t) ==
    (IF t \in cur THEN cur \cup {"data"} ELSE cur \ {"data"}) \ {t}

CartInfo(cart_data) ==
    << "cart",
       [ total_price |-> Get(cart_data, "totalPrice", 0),
         total_items |-> TotalItems(cart_data),
         can_make_order |-> Get(cart_data, "submitConditionPassed", FALSE),
         products |-> [ i \in 1..Len(Get(cart_data, "items", << >>)) |->
                          ProductInfo(Get(cart_data, "items", << >>)[i]) ] ] >>

(***************************************************************************)
(* get_data()                                                              *)
(***************************************************************************)
\* one session object kept for every invocation
NewSession_Shared(sessions) == 1

\* requests.Session(): an object of its own, the next in sessState
NewSession(sessions) == Len(sessions) + 1

\* session = requests.Session() and the fresh locals of an invocation of
\* the locals of an invocation of operation o with arguments a, whichever
\* client it runs on
Invoke(t, o, a, first, e) ==
    /\ sessState' = Append(sessState, "open")
    /\ session' = [ session EXCEPT ![t] = NewSession(sessState) ]
    /\ op' = [ op EXCEPT ![t] = o ]
    /\ args' = [ args EXCEPT ![t] = a ]
    /\ pc' = [ pc EXCEPT ![t] = first ]
    /\ idx' = [ idx EXCEPT ![t] = 0 ]
    /\ result' = [ result EXCEPT ![t] = EmptyMap ]
    /\ reqs' = [ reqs EXCEPT ![t] = << >> ]
    /\ exc' = [ exc EXCEPT ![t] = e ]
    /\ ret' = [ ret EXCEPT ![t] = NoReturn ]
    /\ login_response' = [ login_response EXCEPT ![t] = NoReply ]
    /\ response' = [ response EXCEPT ![t] = NoBody ]

\* operation o with arguments a, up to its first await; the invocation
\* arrives there at position first with exception e pending
Enter(t, o, a, first, e) == Invoke(t, o, a, first, e) /\ UNCHANGED clientVars

\* a task calls an operation of the client from outside the account facade
TopLevel(t) ==
    /\ pc[t] \in {"idle"} \cup Ended
    /\ hubpc[t] \in {"idle"} \cup Ended
    /\ calls < MaxCalls
    /\ calls' = calls + 1
    /\ UNCHANGED << hubVars, sensorVars, setupVars, behind >>

\* session = requests.Session(); result = {}; self.endpoints = {...}
GetDataEnter(t) == Enter(t, "get_data", NoArgs, "login", NoExc)

GetDataStart(t) == TopLevel(t) /\ GetDataEnter(t)

\* where get_data() goes when login() raised: the call is outside the try
\* statement, so the exception leaves get_data() at once
AfterLoginRaised == "raised"

\* result["login"] = await self.login(session)
GetDataLogin(t, reply) ==
    /\ op[t] = "get_data" /\ pc[t] = "login"
    /\ Login(t, reply)
    /\ IF reply.kind = "silent"
       THEN /\ pc' = [ pc EXCEPT ![t] = "blocked" ]
            /\ UNCHANGED << result, exc, idx >>
       ELSE IF LoginExc(address_id, reply) # NoExc
       THEN /\ pc' = [ pc EXCEPT ![t] = AfterLoginRaised ]
            /\ exc' = [ exc EXCEPT ![t] = LoginExc(address_id, reply) ]
            /\ UNCHANGED << result, idx >>
       ELSE /\ result' = [ result EXCEPT ![t] = Put(@, "login", << "login", reply >>) ]
            /\ idx' = [ idx EXCEPT ![t] = 1 ]
            /\ pc' = [ pc EXCEPT ![t] = "loop" ]
            /\ UNCHANGED exc
    /\ UNCHANGED << sessState, calls, sensorVars, setupVars, behind, op, session, ret >>
    /\ UNCHANGED << opVars, hubVars >>

\* the cart fetched after the first endpoint
AfterEndpoint_CartFirst(i) == "cart"

\* the loop's next position
AfterEndpoint(i) == IF i = Len(EndpointOrder) THEN "cart" ELSE "loop"

\* the branch of the loop that skips the request
SkipsRequest(e, address) == e = "next_delivery_slot" /\ address = NULL

\* the query parameters of the request for e
Params(e, user, address) ==
    IF e = "next_delivery_slot" THEN << user, address >> ELSE NoParams

\* result[endpoint] = response.json()
StoreBody(map, e) == Put(map, e, Body(e))

\* result = {endpoint: None} in place of result[endpoint] = None
StoreNull_Rebind(map, e) == Put(EmptyMap, e, NULL)

\* except RequestException: result[endpoint] = None
StoreNull(map, e) == Put(map, e, NULL)

\* continue without the assignment
SkipValue_NoKey(map, e) == map

\* the branch that skips the request: result[endpoint] = None; continue
SkipValue(map, e) == Put(map, e, NULL)

\* the handler of the loop body: the exception it lets through
LoopHandler(ex) == Caught(ex, RequestExceptions)

\* the handler around the cart fetch: the exception it lets through
CartHandler(ex) == Caught(ex, RequestExceptions)

\* the outer handler of get_data(): the exception that leaves get_data()
GetDataExc(ex) == IF ex \in RequestExceptions THEN "APIRequestFailedError" ELSE ex

\* loop body, next_delivery_slot without an address: no request
GetDataSkip(t) ==
    /\ op[t] = "get_data" /\ pc[t] = "loop"
    /\ SkipsRequest(EndpointOrder[idx[t]], address_id)
    /\ result' = [ result EXCEPT ![t] = SkipValue(@, EndpointOrder[idx[t]]) ]
    /\ pc' = [ pc EXCEPT ![t] = AfterEndpoint(idx[t]) ]
    /\ idx' = [ idx EXCEPT ![t] = @ + 1 ]
    /\ UNCHANGED << clientVars, sessState, calls, sensorVars, setupVars, behind, op, session, reqs, exc, ret,
                    login_response >>
    /\ UNCHANGED << opVars, hubVars >>

\* loop body: GET of one endpoint
GetDataEndpoint(t, reply) ==
    /\ op[t] = "get_data" /\ pc[t] = "loop"
    /\ ~ SkipsRequest(EndpointOrder[idx[t]], address_id)
    /\ reqs' = [ reqs EXCEPT ![t] =
                   Append(@, Request(EndpointOrder[idx[t]], session[t],
                                     Params(EndpointOrder[idx[t]], user_id, address_id),
                                     reply)) ]
    /\ IF reply = "silent"
       THEN /\ pc' = [ pc EXCEPT ![t] = "blocked" ]
            /\ UNCHANGED << result, idx, exc >>
       ELSE IF Raised(reply) = NoExc
       THEN /\ result' = [ result EXCEPT ![t] = StoreBody(@, EndpointOrder[idx[t]]) ]
            /\ pc' = [ pc EXCEPT ![t] = AfterEndpoint(idx[t]) ]
            /\ idx' = [ idx EXCEPT ![t] = @ + 1 ]
            /\ UNCHANGED exc
       ELSE IF LoopHandler(Raised(reply)) = NoExc
       THEN /\ result' = [ result EXCEPT ![t] = StoreNull(@, EndpointOrder[idx[t]]) ]
            /\ pc' = [ pc EXCEPT ![t] = AfterEndpoint(idx[t]) ]
            /\ idx' = [ idx EXCEPT ![t] = @ + 1 ]
            /\ UNCHANGED exc
       ELSE /\ pc' = [ pc EXCEPT ![t] = "close" ]
            /\ exc' = [ exc EXCEPT ![t] = GetDataExc(LoopHandler(Raised(reply))) ]
            /\ UNCHANGED << result, idx >>
    /\ UNCHANGED << clientVars, sessState, calls, sensorVars, setupVars, behind, op, session, ret, login_response >>
    /\ UNCHANGED << opVars, hubVars >>

\* result["cart"] = await self.get_cart_content(logged_in=True, session=session)
GetDataCart(t, reply, cart_data) ==
    /\ op[t] = "get_data" /\ pc[t] = "cart"
    /\ reqs' = [ reqs EXCEPT ![t] =
                   Append(@, Request("cart", session[t], NoParams, reply)) ]
    /\ IF reply = "silent"
       THEN /\ pc' = [ pc EXCEPT ![t] = "blocked" ]
            /\ UNCHANGED << result, exc >>
       ELSE /\ pc' = [ pc EXCEPT ![t] = "close" ]
            /\ IF CartExc(Raised(reply)) = NoExc
               THEN /\ result' = [ result EXCEPT ![t] = Put(@, "cart", CartInfo(cart_data)) ]
                    /\ UNCHANGED exc
               ELSE IF CartHandler(CartExc(Raised(reply))) = NoExc
               THEN /\ result' = [ result EXCEPT ![t] = Put(@, "cart", NULL) ]
                    /\ UNCHANGED exc
               ELSE /\ exc' = [ exc EXCEPT ![t] =
                                  GetDataExc(CartHandler(CartExc(Raised(reply)))) ]
                    /\ UNCHANGED result
    /\ UNCHANGED << clientVars, sessState, calls, sensorVars, setupVars, behind, op, session, idx, ret,
                    login_response >>
    /\ UNCHANGED << opVars, hubVars >>

\* finally: await self._run_in_executor(session.close); then the return
\* value, or the exception, reaches the caller
Finally(t) ==
    /\ sessState' = [ sessState EXCEPT ![session[t]] = "closed" ]
    /\ pc' = [ pc EXCEPT ![t] = IF exc[t] = NoExc THEN "returned" ELSE "raised" ]
    /\ ret' = [ ret EXCEPT ![t] = IF exc[t] = NoExc THEN Returned(result[t]) ELSE NoReturn ]
    /\ UNCHANGED << clientVars, calls, sensorVars, setupVars, behind, op, session, idx, result, reqs, exc,
                    login_response, opVars, hubVars >>

\* the end of get_data(): finally, then return result
GetDataClose(t) == op[t] = "get_data" /\ pc[t] = "close" /\ Finally(t)

GetData(t) ==
    \/ GetDataStart(t)
    \/ \E reply \in LoginReplies : GetDataLogin(t, reply)
    \/ GetDataSkip(t)
    \/ \E reply \in GetReplies : GetDataEndpoint(t, reply)
    \/ \E reply \in GetReplies, cart_data \in VendorCarts : GetDataCart(t, reply, cart_data)
    \/ GetDataClose(t)

Next == \E t \in SeqTasks : GetData(t)

Spec == Init /\ [][Next]_vars

(***************************************************************************)
(* The operations that open a session of their own: add_to_cart,           *)
(* search_product, get_shopping_list, get_cart_content called on its own,  *)
(* and delete_from_cart.                                                   *)
(***************************************************************************)
MutatingOps ==
    { "add_to_cart", "search_product", "get_shopping_list", "get_cart_content",
      "delete_from_cart" }

\* the arguments of an invocation of operation o
Args(o, a) == << o, a >>
Arg(t) == args[t][2]

\* the body of a reply: decodable JSON or other text, with the HTTP status
HttpBody(kind, status, content) == << kind, status, content >>

\* login() on this reply returns to its caller
LoginReturns(cur, reply) == reply.kind # "silent" /\ LoginExc(cur, reply) = NoExc

\* `await self.login(session)` in front of the try statement: an exception of
\* login() leaves the operation at once
LoginBeforeTry(t, reply, next) ==
    /\ Login(t, reply)
    /\ IF reply.kind = "silent"
       THEN /\ pc' = [ pc EXCEPT ![t] = "blocked" ]
            /\ UNCHANGED exc
       ELSE IF LoginExc(address_id, reply) # NoExc
       THEN /\ pc' = [ pc EXCEPT ![t] = AfterLoginRaised ]
            /\ exc' = [ exc EXCEPT ![t] = LoginExc(address_id, reply) ]
       ELSE /\ pc' = [ pc EXCEPT ![t] = next ]
            /\ UNCHANGED exc

\* `await self.login(session)` inside the try statement: an exception of
\* login() passes the handlers, which let e through, and reaches finally
LoginInTry(t, reply, next, e) ==
    /\ Login(t, reply)
    /\ IF reply.kind = "silent"
       THEN /\ pc' = [ pc EXCEPT ![t] = "blocked" ]
            /\ UNCHANGED exc
       ELSE IF LoginExc(address_id, reply) # NoExc
       THEN /\ pc' = [ pc EXCEPT ![t] = "close" ]
            /\ exc' = [ exc EXCEPT ![t] = e ]
       ELSE /\ pc' = [ pc EXCEPT ![t] = next ]
            /\ UNCHANGED exc

(***************************************************************************)
(* add_to_cart(product_list)                                               *)
(***************************************************************************)
\* the longest product list handed to add_to_cart
MaxItems == 3

ProductIds == {101, 102}

Products == [ product_id : ProductIds, quantity : {1} ]

ProductLists == UNION { [ 1..n -> Products ] : n \in 0..MaxItems }

\* search_payload: productId and quantity as integers
CartPayload(product) == << product.product_id, product.quantity >>

AddToCartEnter(t, product_list) ==
    Enter(t, "add_to_cart", Args("add_to_cart", [ product_list |-> product_list ]),
          "login", NoExc)

AddToCartStart(t, product_list) == TopLevel(t) /\ AddToCartEnter(t, product_list)

\* added_products = [] and the first turn of the loop, or the return
AddToCartLogin(t, reply) ==
    /\ op[t] = "add_to_cart" /\ pc[t] = "login"
    /\ LoginBeforeTry(t, reply,
                      IF Len(Arg(t).product_list) = 0 THEN "close" ELSE "post")
    /\ IF LoginReturns(address_id, reply)
       THEN /\ result' = [ result EXCEPT ![t] = [ added_products |-> << >> ] ]
            /\ idx' = [ idx EXCEPT ![t] = 1 ]
       ELSE UNCHANGED << result, idx >>
    /\ UNCHANGED << sessState, calls, sensorVars, setupVars, behind, op, session, ret, opVars, hubVars >>

\* the loop without its handler
PostHandler_None(ex) == ex

\* the handler inside the loop: except RequestException: log the error
PostHandler(ex) == Caught(ex, RequestExceptions)

\* the handler around the loop: except RequestException: raise ValueError
AddToCartExc(ex) == IF ex \in RequestExceptions THEN "ValueError" ELSE ex

\* added_products.append(product["product_id"])
AppendAdded(map, product) ==
    [ added_products |-> Append(map.added_products, product.product_id) ]

\* the position after the turn for item i of a list of n items
AfterItem(i, n) == IF i = n THEN "close" ELSE "post"

\* the same item once more
NextItem_Same(i) == i

\* for product in product_list: the loop moves on to the next item
NextItem(i) == i + 1

\* one turn of the loop: the POST of one item
AddToCartPost(t, reply) ==
    /\ op[t] = "add_to_cart" /\ pc[t] = "post"
    /\ reqs' = [ reqs EXCEPT ![t] =
                   Append(@, Request("cart_post", session[t],
                                     CartPayload(Arg(t).product_list[idx[t]]),
                                     reply)) ]
    /\ IF reply = "silent"
       THEN /\ pc' = [ pc EXCEPT ![t] = "blocked" ]
            /\ UNCHANGED << result, idx, exc >>
       ELSE IF Raised(reply) = NoExc
       THEN /\ result' = [ result EXCEPT ![t] =
                             AppendAdded(@, Arg(t).product_list[idx[t]]) ]
            /\ pc' = [ pc EXCEPT ![t] = AfterItem(idx[t], Len(Arg(t).product_list)) ]
            /\ idx' = [ idx EXCEPT ![t] = NextItem(@) ]
            /\ UNCHANGED exc
       ELSE IF PostHandler(Raised(reply)) = NoExc
       THEN /\ pc' = [ pc EXCEPT ![t] = AfterItem(idx[t], Len(Arg(t).product_list)) ]
            /\ idx' = [ idx EXCEPT ![t] = NextItem(@) ]
            /\ UNCHANGED << result, exc >>
       ELSE /\ pc' = [ pc EXCEPT ![t] = "close" ]
            /\ exc' = [ exc EXCEPT ![t] = AddToCartExc(PostHandler(Raised(reply))) ]
            /\ UNCHANGED << result, idx >>
    /\ behind' = IF reply # "silent" /\ Raised(reply) = NoExc
                 THEN ServedChange(behind) ELSE behind
    /\ UNCHANGED << clientVars, sessState, calls, sensorVars, setupVars, op, session, ret,
                    login_response, opVars, hubVars >>

\* the end of add_to_cart(): finally, then return {"added_products": ...}
AddToCartClose(t) == op[t] = "add_to_cart" /\ pc[t] = "close" /\ Finally(t)

(***************************************************************************)
(* search_product(product_name, limit, favourite)                          *)
(***************************************************************************)
\* the largest limit asked of search_product
MaxLimit == 2

\* the services pass a non-negative limit
Limits == 0..MaxLimit

\* the longest product list in the vendor's reply
MaxListing == 3

\* one entry of data.productList
VendorProduct(p) ==
    [ productId |-> p, productName |-> << "name", p >>,
      price |-> [ full |-> 25, currency |-> "CZK" ], brand |-> "brand",
      textualAmount |-> "1 ks" ]

\* badge is a list of badges (here their slugs); an entry may carry neither
\* badge nor favourite
Catalogue ==
    { VendorProduct(201),
      [ k \in DOMAIN VendorProduct(202) \cup {"badge", "favourite"} |->
          IF k = "badge" THEN << "promoted" >>
          ELSE IF k = "favourite" THEN FALSE ELSE VendorProduct(202)[k] ],
      [ k \in DOMAIN VendorProduct(203) \cup {"badge", "favourite"} |->
          IF k = "badge" THEN << "new" >>
          ELSE IF k = "favourite" THEN TRUE ELSE VendorProduct(203)[k] ],
      [ k \in DOMAIN VendorProduct(204) \cup {"badge", "favourite"} |->
          IF k = "badge" THEN << "new", "promoted" >>
          ELSE IF k = "favourite" THEN TRUE ELSE VendorProduct(204)[k] ] }

\* the vendor lists every product once
Listings ==
    { l \in UNION { [ 1..n -> Catalogue ] : n \in 0..MaxListing } :
        \A i, j \in DOMAIN l : i # j => l[i] # l[j] }

\* any(badge.get("slug") == "promoted" for badge in p.get("badge", []))
Promoted(p) ==
    \E i \in DOMAIN Get(p, "badge", << >>) : Get(p, "badge", << >>)[i] = "promoted"

\* p.get("favourite", False)
Favourite(p) == Get(p, "favourite", FALSE)

NotPromoted(p) == ~ Promoted(p)

\* the list as it is, without the cut
Truncate_None(found, limit) == found

\* found_products[:limit] when the list is longer than limit
Truncate(found, limit) ==
    IF Len(found) > limit THEN SubSeq(found, 1, limit) ELSE found

\* if favourite: keep the products flagged favourite
KeepFavourites(found, favourite) ==
    IF favourite THEN SelectSeq(found, Favourite) ELSE found

\* one entry of search_results; the price is the text "<full> <currency>"
SearchEntry(p) ==
    [ id |-> p.productId, name |-> p.productName,
      price |-> << p.price.full, " ", p.price.currency >>,
      brand |-> p.brand, amount |-> p.textualAmount ]

\* the return value: {"search_results": [...]} or None
SearchReturn(found) ==
    IF Len(found) > 0
    THEN << "search", [ search_results |->
                          [ i \in 1..Len(found) |-> SearchEntry(found[i]) ] ] >>
    ELSE NULL

\* what search_product returns on the vendor's product list
SearchResults(listing, limit, favourite) ==
    SearchReturn(Truncate(KeepFavourites(SelectSeq(listing, NotPromoted), favourite),
                          limit))

\* the handler of search_product: except RequestException: return None
SearchHandler(ex) == Caught(ex, RequestExceptions)

\* "limit": limit + 5
SearchPayload(limit) == << limit + 5 >>

SearchEnter(t, limit, favourite) ==
    Enter(t, "search_product",
          Args("search_product", [ limit |-> limit, favourite |-> favourite ]),
          "login", NoExc)

SearchStart(t, limit, favourite) == TopLevel(t) /\ SearchEnter(t, limit, favourite)

\* await self.login(session), before the try statement
SearchLogin(t, reply) ==
    /\ op[t] = "search_product" /\ pc[t] = "login"
    /\ LoginBeforeTry(t, reply, "login_again")
    /\ UNCHANGED << sessState, calls, sensorVars, setupVars, behind, op, session, idx, result, ret, opVars, hubVars >>

\* await self.login(session), inside the try statement
SearchLoginAgain(t, reply) ==
    /\ op[t] = "search_product" /\ pc[t] = "login_again"
    /\ LoginInTry(t, reply, "request", SearchHandler(LoginExc(address_id, reply)))
    /\ UNCHANGED << sessState, calls, sensorVars, setupVars, behind, op, session, idx, result, ret, opVars, hubVars >>

\* the GET of search-metadata and the filters
SearchRequest(t, reply, listing) ==
    /\ op[t] = "search_product" /\ pc[t] = "request"
    /\ reqs' = [ reqs EXCEPT ![t] =
                   Append(@, Request("search", session[t],
                                     SearchPayload(Arg(t).limit), reply)) ]
    /\ IF reply = "silent"
       THEN /\ pc' = [ pc EXCEPT ![t] = "blocked" ]
            /\ UNCHANGED << result, exc, response >>
       ELSE /\ pc' = [ pc EXCEPT ![t] = "close" ]
            /\ IF Raised(reply) = NoExc
               THEN /\ response' = [ response EXCEPT ![t] = HttpBody("json", 200, listing) ]
                    /\ result' = [ result EXCEPT ![t] =
                                     SearchResults(listing, Arg(t).limit, Arg(t).favourite) ]
                    /\ UNCHANGED exc
               ELSE /\ result' = [ result EXCEPT ![t] = NULL ]
                    /\ exc' = [ exc EXCEPT ![t] = SearchHandler(Raised(reply)) ]
                    /\ UNCHANGED response
    /\ UNCHANGED << clientVars, sessState, calls, sensorVars, setupVars, behind, op, session, idx, ret,
                    login_response, args, hubVars >>

\* the end of search_product(): finally, then the return
SearchClose(t) == op[t] = "search_product" /\ pc[t] = "close" /\ Finally(t)

(***************************************************************************)
(* get_shopping_list(shopping_list_id)                                     *)
(***************************************************************************)
\* the argument: None (the default), the empty string, or an id
ListIds == { NULL, << "id", "" >>, << "id", "list-1" >> }

\* only None taken for a missing id
MissingId_NoneOnly(id) == id = NULL

\* not shopping_list_id
MissingId(id) == id = NULL \/ id = << "id", "" >>

\* the handler of get_shopping_list: except RequestException: raise ValueError
ShoppingListExc(ex) == IF ex \in RequestExceptions THEN "ValueError" ELSE ex

\* the vendor's shopping list and what get_shopping_list makes of it
VendorList == [ name |-> "weekly", products |-> << 101, 102 >> ]

ShoppingList(search_data) ==
    << "list", [ name |-> search_data.name, products_in_list |-> search_data.products ] >>

\* session = requests.Session(); if not shopping_list_id: raise ValueError
ShoppingListStart(t, id) ==
    /\ TopLevel(t)
    /\ Enter(t, "get_shopping_list",
             Args("get_shopping_list", [ shopping_list_id |-> id ]),
             IF MissingId(id) THEN "close" ELSE "login",
             IF MissingId(id) THEN ShoppingListExc("ValueError") ELSE NoExc)

\* await self.login(session), inside the try statement
ShoppingListLogin(t, reply) ==
    /\ op[t] = "get_shopping_list" /\ pc[t] = "login"
    /\ LoginInTry(t, reply, "request", ShoppingListExc(LoginExc(address_id, reply)))
    /\ UNCHANGED << sessState, calls, sensorVars, setupVars, behind, op, session, idx, result, ret, opVars, hubVars >>

\* the GET of the shopping list
ShoppingListRequest(t, reply) ==
    /\ op[t] = "get_shopping_list" /\ pc[t] = "request"
    /\ reqs' = [ reqs EXCEPT ![t] =
                   Append(@, Request("shopping_list", session[t],
                                     << Arg(t).shopping_list_id >>, reply)) ]
    /\ IF reply = "silent"
       THEN /\ pc' = [ pc EXCEPT ![t] = "blocked" ]
            /\ UNCHANGED << result, exc, response >>
       ELSE /\ pc' = [ pc EXCEPT ![t] = "close" ]
            /\ IF Raised(reply) = NoExc
               THEN /\ response' = [ response EXCEPT ![t] = HttpBody("json", 200, VendorList) ]
                    /\ result' = [ result EXCEPT ![t] = ShoppingList(VendorList) ]
                    /\ UNCHANGED exc
               ELSE /\ exc' = [ exc EXCEPT ![t] = ShoppingListExc(Raised(reply)) ]
                    /\ UNCHANGED << result, response >>
    /\ UNCHANGED << clientVars, sessState, calls, sensorVars, setupVars, behind, op, session, idx, ret,
                    login_response, args, hubVars >>

\* the end of get_shopping_list(): finally, then the return or the exception
ShoppingListClose(t) == op[t] = "get_shopping_list" /\ pc[t] = "close" /\ Finally(t)

(***************************************************************************)
(* get_cart_content() called on its own (logged_in = False)                *)
(***************************************************************************)
\* if not logged_in: session = requests.Session()
GetCartStart(t) ==
    /\ TopLevel(t)
    /\ Enter(t, "get_cart_content", Args("get_cart_content", [ logged_in |-> FALSE ]),
             "login", NoExc)

\* await self.login(session), before the try statement
GetCartLogin(t, reply) ==
    /\ op[t] = "get_cart_content" /\ pc[t] = "login"
    /\ LoginBeforeTry(t, reply, "request")
    /\ UNCHANGED << sessState, calls, sensorVars, setupVars, behind, op, session, idx, result, ret, opVars, hubVars >>

\* the GET of the cart; cart_info is built from the reply once the session
\* is closed
GetCartRequest(t, reply, cart_data) ==
    /\ op[t] = "get_cart_content" /\ pc[t] = "request"
    /\ reqs' = [ reqs EXCEPT ![t] =
                   Append(@, Request("cart", session[t], NoParams, reply)) ]
    /\ IF reply = "silent"
       THEN /\ pc' = [ pc EXCEPT ![t] = "blocked" ]
            /\ UNCHANGED << result, exc, response >>
       ELSE /\ pc' = [ pc EXCEPT ![t] = "close" ]
            /\ IF CartExc(Raised(reply)) = NoExc
               THEN /\ response' = [ response EXCEPT ![t] = HttpBody("json", 200, cart_data) ]
                    /\ result' = [ result EXCEPT ![t] = CartInfo(cart_data) ]
                    /\ UNCHANGED exc
               ELSE /\ exc' = [ exc EXCEPT ![t] = CartExc(Raised(reply)) ]
                    /\ UNCHANGED << result, response >>
    /\ UNCHANGED << clientVars, sessState, calls, sensorVars, setupVars, behind, op, session, idx, ret,
                    login_response, args, hubVars >>

\* finally: if not logged_in: close the session; then return cart_info
GetCartClose(t) == op[t] = "get_cart_content" /\ pc[t] = "close" /\ Finally(t)

(***************************************************************************)
(* delete_from_cart(order_field_id)                                        *)
(***************************************************************************)
OrderFieldIds == { << "orderField", 101 >> }

\* the replies to the DELETE: those of a GET, and a reply without a JSON body
DeleteReplies == GetReplies \cup {"nonjson"}

\* the HTTP status of a reply that passes raise_for_status()
SuccessStatuses == {200, 204}

\* the body of a reply to the DELETE
DeleteBody(reply, status) ==
    IF reply = "nonjson" THEN HttpBody("text", status, "")
    ELSE HttpBody("json", status, "deleted")

\* the decoding error let through
DeleteResult_Strict(body) ==
    IF body[1] = "json" THEN << "json", body[3] >> ELSE << "raises", "JSONDecodeError" >>

\* try: return delete_response.json()
\* except: return {"success": True, "status_code": delete_response.status_code}
DeleteResult(body) ==
    IF body[1] = "json" THEN << "json", body[3] >>
    ELSE << "dict", [ success |-> TRUE, status_code |-> body[2] ] >>

\* the handler of delete_from_cart: except RequestException: raise
\* APIRequestFailedError
DeleteExc(ex) == IF ex \in RequestExceptions THEN "APIRequestFailedError" ELSE ex

DeleteEnter(t, id) ==
    Enter(t, "delete_from_cart", Args("delete_from_cart", [ order_field_id |-> id ]),
          "login", NoExc)

DeleteStart(t, id) == TopLevel(t) /\ DeleteEnter(t, id)

\* await self.login(session), inside the try statement
DeleteLogin(t, reply) ==
    /\ op[t] = "delete_from_cart" /\ pc[t] = "login"
    /\ LoginInTry(t, reply, "request", DeleteExc(LoginExc(address_id, reply)))
    /\ UNCHANGED << sessState, calls, sensorVars, setupVars, behind, op, session, idx, result, ret, opVars, hubVars >>

\* the DELETE and the decoding of its reply
DeleteRequest(t, reply, status) ==
    /\ op[t] = "delete_from_cart" /\ pc[t] = "request"
    /\ reqs' = [ reqs EXCEPT ![t] =
                   Append(@, Request("cart_delete", session[t],
                                     << Arg(t).order_field_id >>, reply)) ]
    /\ IF reply = "silent"
       THEN /\ pc' = [ pc EXCEPT ![t] = "blocked" ]
            /\ UNCHANGED << result, exc, response >>
       ELSE /\ pc' = [ pc EXCEPT ![t] = "close" ]
            /\ IF Raised(reply) # NoExc
               THEN /\ exc' = [ exc EXCEPT ![t] = DeleteExc(Raised(reply)) ]
                    /\ UNCHANGED << result, response >>
               ELSE /\ response' = [ response EXCEPT ![t] = DeleteBody(reply, status) ]
                    /\ IF DeleteResult(DeleteBody(reply, status))[1] = "raises"
                       THEN /\ exc' = [ exc EXCEPT ![t] =
                                          DeleteExc(DeleteResult(DeleteBody(reply, status))[2]) ]
                            /\ UNCHANGED result
                       ELSE /\ result' = [ result EXCEPT ![t] =
                                             DeleteResult(DeleteBody(reply, status)) ]
                            /\ UNCHANGED exc
    /\ behind' = IF reply # "silent" /\ Raised(reply) = NoExc
                 THEN ServedChange(behind) ELSE behind
    /\ UNCHANGED << clientVars, sessState, calls, sensorVars, setupVars, op, session, idx, ret,
                    login_response, args, hubVars >>

\* the end of delete_from_cart(): finally, then the return or the exception
DeleteClose(t) == op[t] = "delete_from_cart" /\ pc[t] = "close" /\ Finally(t)

(***************************************************************************)
(* The operations with a session of their own, called one after the other  *)
(* by one task.                                                            *)
(***************************************************************************)
OpsNext ==
    \E t \in SeqTasks :
        \/ \E product_list \in ProductLists : AddToCartStart(t, product_list)
        \/ \E reply \in LoginReplies : AddToCartLogin(t, reply)
        \/ \E reply \in GetReplies : AddToCartPost(t, reply)
        \/ AddToCartClose(t)
        \/ \E limit \in Limits, favourite \in BOOLEAN : SearchStart(t, limit, favourite)
        \/ \E reply \in LoginReplies : SearchLogin(t, reply)
        \/ \E reply \in LoginReplies : SearchLoginAgain(t, reply)
        \/ \E reply \in GetReplies, listing \in Listings : SearchRequest(t, reply, listing)
        \/ SearchClose(t)
        \/ \E id \in ListIds : ShoppingListStart(t, id)
        \/ \E reply \in LoginReplies : ShoppingListLogin(t, reply)
        \/ \E reply \in GetReplies : ShoppingListRequest(t, reply)
        \/ ShoppingListClose(t)
        \/ GetCartStart(t)
        \/ \E reply \in LoginReplies : GetCartLogin(t, reply)
        \/ \E reply \in GetReplies, cart_data \in VendorCarts :
              GetCartRequest(t, reply, cart_data)
        \/ GetCartClose(t)
        \/ \E id \in OrderFieldIds : DeleteStart(t, id)
        \/ \E reply \in LoginReplies : DeleteLogin(t, reply)
        \/ \E reply \in DeleteReplies, status \in SuccessStatuses :
              DeleteRequest(t, reply, status)
        \/ DeleteClose(t)

OpsSpec == Init /\ [][OpsNext]_vars

(***************************************************************************)
(* The account facade RohlikAccount (hub.py).  A method of the facade      *)
(* awaits operations of the client; what the method does once the awaited  *)
(* operation has ended is a step of its own.  The operation's steps leave  *)
(* the facade's state alone and the other tasks leave the operation's      *)
(* locals alone, so that step finds what the operation left.               *)
(***************************************************************************)
\* the subscribers: bound methods async_write_ha_state of the entities
Callbacks == {"cb1", "cb2"}

\* a task calls method m of the facade with arguments a and arrives at
\* position first
HubCall(t, m, a, first) ==
    /\ pc[t] \in {"idle"} \cup Ended
    /\ hubpc[t] \in {"idle"} \cup Ended
    /\ calls < MaxCalls
    /\ calls' = calls + 1
    /\ hubop' = [ hubop EXCEPT ![t] = m ]
    /\ hubargs' = [ hubargs EXCEPT ![t] = Args(m, a) ]
    /\ hubpc' = [ hubpc EXCEPT ![t] = first ]
    /\ hubresult' = [ hubresult EXCEPT ![t] = NoReturn ]
    /\ hubret' = [ hubret EXCEPT ![t] = NoReturn ]
    /\ hubexc' = [ hubexc EXCEPT ![t] = NoExc ]
    /\ notified' = [ notified EXCEPT ![t] = << >> ]
    /\ UNCHANGED << data, callbacks >>

\* the value `await self._rohlik_api.<operation>(...)` evaluates to
Awaited(t) == ret[t][2]

\* self._callbacks.add(callback)
RegisterCallback(callback) ==
    /\ callbacks' = callbacks \cup {callback}
    /\ UNCHANGED << clientVars, sessState, calls, sensorVars, setupVars, behind, op, pc, session, idx, result, reqs,
                    exc, ret, login_response, opVars, data, hubop, hubpc, hubargs,
                    hubresult, hubret, hubexc, notified >>

\* self._callbacks.discard(callback)
RemoveCallback(callback) ==
    /\ callbacks' = callbacks \ {callback}
    /\ UNCHANGED << clientVars, sessState, calls, sensorVars, setupVars, behind, op, pc, session, idx, result, reqs,
                    exc, ret, login_response, opVars, data, hubop, hubpc, hubargs,
                    hubresult, hubret, hubexc, notified >>

\* the orders in which `for callback in self._callbacks` may go through the set
Orders(set) ==
    { o \in [ 1..Cardinality(set) -> set ] : \A i, j \in DOMAIN o : i # j => o[i] # o[j] }

\* publish_updates(): the callbacks called when the loop goes through them
\* in this order and those in failing raise; the first that raises ends it
Published(order, failing) ==
    IF \E i \in DOMAIN order : order[i] \in failing
    THEN SubSeq(order, 1,
                CHOOSE i \in DOMAIN order :
                    order[i] \in failing /\ \A j \in 1..(i - 1) : order[j] \notin failing)
    ELSE order

\* the exception that leaves publish_updates()
PublishExc(order, failing) ==
    IF \E i \in DOMAIN order : order[i] \in failing THEN "CallbackError" ELSE NoExc

\* the keys of the new mapping written into the old one, login and cart first
Replaced_InPlace(cur, returned) ==
    [ k \in DOMAIN cur \cup {"login", "cart"} |->
        IF k \in {"login", "cart"} THEN returned[k] ELSE cur[k] ]

\* self.data = await self._rohlik_api.get_data()
Replaced(cur, returned) == returned

\* the message of search_and_add when nothing matched
NoMatchMessage(favourite) ==
    << "No product matched when searching for \"", "name", "\"",
       IF favourite THEN " in favourites" ELSE "", "." >>

\* the failure without a message
NoMatch_Silent(favourite) ==
    << "dict", [ success |-> FALSE, message |-> << >>, added_to_cart |-> << >> ] >>

\* what search_and_add returns when nothing matched
NoMatch(favourite) ==
    << "dict", [ success |-> FALSE, message |-> NoMatchMessage(favourite),
                 added_to_cart |-> << >> ] >>

\* what the method of the facade returns once async_update() has returned
HubReturn(t) ==
    IF hubop[t] = "async_update" THEN NULL
    ELSE IF hubop[t] = "search_and_add"
    THEN << "dict", [ success |-> TRUE, message |-> << "" >>,
                      added_to_cart |-> << hubresult[t][2][2].search_results[1] >> ] >>
    ELSE hubresult[t][2]

\* async_update(): self._rohlik_api.get_data() up to its first await
AsyncUpdateStart(t) ==
    /\ HubCall(t, "async_update", NoArgs, "update")
    /\ GetDataEnter(t)
    /\ UNCHANGED << sensorVars, setupVars, behind >>

\* async_update() once get_data() has returned: the assignment to self.data,
\* publish_updates(), and the return of the method that awaited the refresh.
\* The set is gone through in some order, and some callbacks raise
AsyncUpdatePublish(t) ==
    /\ hubpc[t] = "update" /\ op[t] = "get_data" /\ pc[t] = "returned"
    /\ data' = Replaced(data, Awaited(t))
    /\ \E order \in Orders(callbacks), failing \in SUBSET Callbacks :
          /\ notified' = [ notified EXCEPT ![t] = Published(order, failing) ]
          /\ IF PublishExc(order, failing) = NoExc
             THEN /\ hubpc' = [ hubpc EXCEPT ![t] = "returned" ]
                  /\ hubret' = [ hubret EXCEPT ![t] = Returned(HubReturn(t)) ]
                  /\ UNCHANGED hubexc
             ELSE /\ hubpc' = [ hubpc EXCEPT ![t] = "raised" ]
                  /\ hubexc' = [ hubexc EXCEPT ![t] = PublishExc(order, failing) ]
                  /\ UNCHANGED hubret
    /\ behind' = StoredSnapshot(behind, t)
    /\ UNCHANGED << clientVars, sessState, calls, sensorVars, setupVars, op, pc, session, idx,
                    result, reqs, exc, ret, login_response, opVars, callbacks, hubop,
                    hubargs, hubresult >>

\* the exception leaves the method and the snapshot is dropped
HubRaise_Clearing(t) ==
    /\ hubpc[t] \notin {"idle"} \cup Ended /\ pc[t] = "raised"
    /\ hubpc' = [ hubpc EXCEPT ![t] = "raised" ]
    /\ hubexc' = [ hubexc EXCEPT ![t] = exc[t] ]
    /\ data' = EmptyMap
    /\ UNCHANGED << clientVars, sessState, calls, sensorVars, setupVars, behind, op, pc, session, idx, result, reqs,
                    exc, ret, login_response, opVars, callbacks, hubop, hubargs,
                    hubresult, hubret, notified >>

\* the awaited operation of the client raised: no handler in the facade, the
\* exception leaves the method
HubRaise(t) ==
    /\ hubpc[t] \notin {"idle"} \cup Ended /\ pc[t] = "raised"
    /\ hubpc' = [ hubpc EXCEPT ![t] = "raised" ]
    /\ hubexc' = [ hubexc EXCEPT ![t] = exc[t] ]
    /\ UNCHANGED << clientVars, sessState, calls, sensorVars, setupVars, behind, op, pc, session, idx, result, reqs,
                    exc, ret, login_response, opVars, data, callbacks, hubop, hubargs,
                    hubresult, hubret, notified >>

\* add_to_cart(product_id, quantity): the call of the client's add_to_cart
HubAddToCart(t, product_id, quantity) ==
    /\ HubCall(t, "add_to_cart", [ product_id |-> product_id, quantity |-> quantity ], "change")
    /\ AddToCartEnter(t, << [ product_id |-> product_id, quantity |-> quantity ] >>)
    /\ UNCHANGED << sensorVars, setupVars, behind >>

\* delete_from_cart(order_field_id): the call of the client's delete_from_cart
HubDeleteFromCart(t, id) ==
    /\ HubCall(t, "delete_from_cart", [ order_field_id |-> id ], "change")
    /\ DeleteEnter(t, id)
    /\ UNCHANGED << sensorVars, setupVars, behind >>

\* the result handed back without a refresh
HubRefresh_NoRefresh(t) ==
    /\ hubpc[t] = "change" /\ op[t] \in {"add_to_cart", "delete_from_cart"}
    /\ pc[t] = "returned"
    /\ hubresult' = [ hubresult EXCEPT ![t] = ret[t] ]
    /\ hubpc' = [ hubpc EXCEPT ![t] = "returned" ]
    /\ hubret' = [ hubret EXCEPT ![t] = ret[t] ]
    /\ UNCHANGED << clientVars, sessState, calls, sensorVars, setupVars, behind, op, pc, session, idx, result, reqs,
                    exc, ret, login_response, opVars, data, callbacks, hubop, hubargs,
                    hubexc, notified >>

\* result = await self._rohlik_api.<change>(...); await self.async_update()
\* Within search_and_add the result is the local of add_to_cart, next to
\* searched_product of search_and_add
HubRefresh(t) ==
    /\ hubpc[t] = "change" /\ op[t] \in {"add_to_cart", "delete_from_cart"}
    /\ pc[t] = "returned"
    /\ hubresult' = [ hubresult EXCEPT ![t] =
                        IF hubop[t] = "search_and_add" THEN Append(@, ret[t][2])
                        ELSE ret[t] ]
    /\ hubpc' = [ hubpc EXCEPT ![t] = "update" ]
    /\ GetDataEnter(t)
    /\ UNCHANGED << calls, sensorVars, setupVars, behind, data, callbacks, hubop, hubargs, hubret, hubexc, notified >>

\* search_and_add(product_name, quantity, favourite): search_product with
\* limit=5
SearchAndAdd(t, quantity, favourite) ==
    /\ HubCall(t, "search_and_add", [ quantity |-> quantity, favourite |-> favourite ],
               "search")
    /\ SearchEnter(t, 5, favourite)
    /\ UNCHANGED << sensorVars, setupVars, behind >>

\* if searched_product
Matched(searched_product) == searched_product # NULL

\* if searched_product: await self.add_to_cart(first result's id, quantity)
SearchAndAddMatched(t) ==
    /\ hubpc[t] = "search" /\ op[t] = "search_product" /\ pc[t] = "returned"
    /\ Matched(Awaited(t))
    /\ hubresult' = [ hubresult EXCEPT ![t] = ret[t] ]
    /\ hubpc' = [ hubpc EXCEPT ![t] = "change" ]
    /\ AddToCartEnter(t, << [ product_id |-> Awaited(t)[2].search_results[1].id,
                              quantity |-> hubargs[t][2].quantity ] >>)
    /\ UNCHANGED << calls, sensorVars, setupVars, behind, data, callbacks, hubop, hubargs, hubret, hubexc, notified >>

\* else: return the failure
SearchAndAddNoMatch(t) ==
    /\ hubpc[t] = "search" /\ op[t] = "search_product" /\ pc[t] = "returned"
    /\ ~ Matched(Awaited(t))
    /\ hubpc' = [ hubpc EXCEPT ![t] = "returned" ]
    /\ hubret' = [ hubret EXCEPT ![t] = Returned(NoMatch(hubargs[t][2].favourite)) ]
    /\ UNCHANGED << clientVars, sessState, calls, sensorVars, setupVars, behind, op, pc, session, idx, result, reqs,
                    exc, ret, login_response, opVars, data, callbacks, hubop, hubargs,
                    hubresult, hubexc, notified >>

(***************************************************************************)
(* One task calling the facade, one method after the other, while         *)
(* entities subscribe and unsubscribe.  The vendor's replies are fewer     *)
(* here: the login succeeds for one user, with or without an address, or   *)
(* is refused with 401; a request is answered or fails in transport; the   *)
(* nine endpoints of get_data() answer.                                    *)
(***************************************************************************)
HubLoginReplies ==
    { r \in LoginBodies :
        \/ r.status = 401
        \/ r.user = << "user", 11 >> /\ r.address \in { << "address", 21 >>, MISSING } }

HubReplies == {"ok", "transport"}

HubCarts == { c \in VendorCarts : Len(Get(c, "items", << >>)) # 1 }

HubListings == { l \in Listings : Len(l) <= 1 }

HubNext ==
    \/ \E callback \in Callbacks : RegisterCallback(callback)
    \/ \E callback \in Callbacks : RemoveCallback(callback)
    \/ \E t \in SeqTasks :
        \/ AsyncUpdateStart(t)
        \/ \E reply \in HubLoginReplies : GetDataLogin(t, reply)
        \/ GetDataSkip(t)
        \/ GetDataEndpoint(t, "ok")
        \/ \E reply \in HubReplies, cart_data \in HubCarts : GetDataCart(t, reply, cart_data)
        \/ GetDataClose(t)
        \/ AsyncUpdatePublish(t)
        \/ HubRaise(t)
        \/ \E product_id \in ProductIds : HubAddToCart(t, product_id, 1)
        \/ \E reply \in HubLoginReplies : AddToCartLogin(t, reply)
        \/ \E reply \in HubReplies : AddToCartPost(t, reply)
        \/ AddToCartClose(t)
        \/ \E id \in OrderFieldIds : HubDeleteFromCart(t, id)
        \/ \E reply \in HubLoginReplies : DeleteLogin(t, reply)
        \/ \E reply \in HubReplies, status \in SuccessStatuses : DeleteRequest(t, reply, status)
        \/ DeleteClose(t)
        \/ HubRefresh(t)
        \/ \E favourite \in BOOLEAN : SearchAndAdd(t, 1, favourite)
        \/ \E reply \in HubLoginReplies : SearchLogin(t, reply)
        \/ \E reply \in HubLoginReplies : SearchLoginAgain(t, reply)
        \/ \E reply \in HubReplies, listing \in HubListings : SearchRequest(t, reply, listing)
        \/ SearchClose(t)
        \/ SearchAndAddMatched(t)
        \/ SearchAndAddNoMatch(t)

HubSpec == Init /\ [][HubNext]_vars

(***************************************************************************)
(* Two tasks on the same client side by side: each refreshes the account   *)
(* or calls an operation of the client, and their steps interleave at the  *)
(* awaits.  The vendor's replies are those of the facade's runs, with one  *)
(* product list, one search and one shopping list.                         *)
(***************************************************************************)
ConcNext ==
    \E t \in Tasks :
        \/ AsyncUpdateStart(t)
        \/ \E reply \in HubLoginReplies : GetDataLogin(t, reply)
        \/ GetDataSkip(t)
        \/ GetDataEndpoint(t, "ok")
        \/ \E reply \in HubReplies, cart_data \in HubCarts : GetDataCart(t, reply, cart_data)
        \/ GetDataClose(t)
        \/ AsyncUpdatePublish(t)
        \/ HubRaise(t)
        \/ AddToCartStart(t, << [ product_id |-> 101, quantity |-> 1 ] >>)
        \/ \E reply \in HubLoginReplies : AddToCartLogin(t, reply)
        \/ \E reply \in HubReplies : AddToCartPost(t, reply)
        \/ AddToCartClose(t)
        \/ SearchStart(t, 1, FALSE)
        \/ \E reply \in HubLoginReplies : SearchLogin(t, reply)
        \/ \E reply \in HubLoginReplies : SearchLoginAgain(t, reply)
        \/ \E reply \in HubReplies : SearchRequest(t, reply, << VendorProduct(201) >>)
        \/ SearchClose(t)
        \/ ShoppingListStart(t, << "id", "list-1" >>)
        \/ \E reply \in HubLoginReplies : ShoppingListLogin(t, reply)
        \/ \E reply \in HubReplies : ShoppingListRequest(t, reply)
        \/ ShoppingListClose(t)
        \/ GetCartStart(t)
        \/ \E reply \in HubLoginReplies : GetCartLogin(t, reply)
        \/ \E reply \in HubReplies, cart_data \in HubCarts :
              GetCartRequest(t, reply, cart_data)
        \/ GetCartClose(t)
        \/ \E id \in OrderFieldIds : DeleteStart(t, id)
        \/ \E reply \in HubLoginReplies : DeleteLogin(t, reply)
        \/ \E reply \in HubReplies : DeleteRequest(t, reply, 200)
        \/ DeleteClose(t)

ConcSpec == Init /\ [][ConcNext]_vars

(***************************************************************************)
(* get_data() and add_to_cart() called one after the other by one task,    *)
(* every request with each of its outcomes.                                *)
(***************************************************************************)
RequestNext ==
    \E t \in SeqTasks :
        \/ GetDataStart(t)
        \/ \E reply \in HubLoginReplies : GetDataLogin(t, reply)
        \/ GetDataSkip(t)
        \/ \E reply \in GetReplies : GetDataEndpoint(t, reply)
        \/ \E reply \in GetReplies, cart_data \in HubCarts : GetDataCart(t, reply, cart_data)
        \/ GetDataClose(t)
        \/ \E product_list \in ProductLists : AddToCartStart(t, product_list)
        \/ \E reply \in HubLoginReplies : AddToCartLogin(t, reply)
        \/ \E reply \in GetReplies : AddToCartPost(t, reply)
        \/ AddToCartClose(t)

RequestSpec == Init /\ [][RequestNext]_vars

(***************************************************************************)
(* DeliveryInfo.extract_delivery_datetime(text, is_knuspr)                 *)
(* (custom_components/rohlikcz/sensor.py).                                 *)
(*                                                                         *)
(* The announcement is a sequence of tokens separated by blanks; a token   *)
(* is a piece of text the patterns of the parser tell apart.               *)
(*   k  : "num"  a number of one to three digits (a)                       *)
(*        "date" D.M. (a = day, b = month)                                 *)
(*        "time" H:MM (a = hour, b = minute)                               *)
(*        "min"  a minutes keyword          "am", "um", "ca"  the German   *)
(*        words am, um / gegen, ca.                                        *)
(*        "esc_b" the two characters \b     "bs"  the character U+0008     *)
(*        "esc_bad" a backslash that starts no escape sequence             *)
(*   hl : "plain" outside any tag, "span" inside <span>, "color" inside a  *)
(*        <span> whose attributes hold color:                              *)
(***************************************************************************)
\* the longest announcement, in tokens
MaxTokens == 4

Tok(k, hl, a, b) == [ k |-> k, hl |-> hl, a |-> a, b |-> b ]

Alphabet ==
    { Tok("num", "span", 45, 0), Tok("num", "plain", 55, 0),
      Tok("min", "plain", 0, 0),
      Tok("date", "color", 26, 4), Tok("date", "color", 31, 2),
      Tok("time", "color", 17, 23), Tok("time", "color", 25, 0),
      Tok("time", "plain", 9, 0),
      Tok("am", "plain", 0, 0), Tok("um", "plain", 0, 0), Tok("ca", "plain", 0, 0),
      Tok("esc_b", "plain", 0, 0), Tok("esc_bad", "plain", 0, 0) }

Texts == UNION { [ 1..n -> Alphabet ] : n \in 0..MaxTokens }

\* a wall-clock time in zone tz
Datetime(year, month, day, hour, minute, second, tz) ==
    [ year |-> year, month |-> month, day |-> day, hour |-> hour,
      minute |-> minute, second |-> second, tz |-> tz ]

\* what datetime.now(tz=tz) reads, tz still to be set
Nows ==
    { Datetime(2024, 3, 15, 10, 0, 0, NULL), Datetime(2024, 12, 31, 23, 50, 30, NULL) }

\* ZoneInfo("Europe/Berlin") if is_knuspr else ZoneInfo("Europe/Prague")
Zone(is_knuspr) == IF is_knuspr THEN "Europe/Berlin" ELSE "Europe/Prague"

\* text.encode("utf-8").decode("unicode_escape") raises on a backslash that
\* starts no escape sequence; no handler is around it
DecodeExc(text) ==
    IF \E i \in DOMAIN text : text[i].k = "esc_bad" THEN "UnicodeDecodeError" ELSE NoExc

\* clean_text: the escape sequence \b becomes the character U+0008
Decode(text) ==
    [ i \in DOMAIN text |->
        IF text[i].k = "esc_b" THEN Tok("bs", "plain", 0, 0) ELSE text[i] ]

\* plain_text = re.sub(r"<[^>]+>", "", clean_text)
StripTags(clean_text) ==
    [ i \in DOMAIN clean_text |-> [ clean_text[i] EXCEPT !.hl = "plain" ] ]

\* the tokens from position i on are of the kinds ks
Kinds(s, i, ks) ==
    /\ i + Len(ks) - 1 <= Len(s)
    /\ \A j \in DOMAIN ks : s[i + j - 1].k = ks[j]

\* re.search: the leftmost of the positions S, 0 when there is none
Leftmost(S) == IF S = {} THEN 0 ELSE CHOOSE i \in S : \A j \in S : i <= j

\* minutes_span_pattern: <span ...>N</span> and a minutes keyword
SpanMinutes(clean_text) ==
    Leftmost({ i \in DOMAIN clean_text :
                 Kinds(clean_text, i, << "num", "min" >>) /\ clean_text[i].hl # "plain" })

\* the fallback on plain_text.  The pattern ends with ")\b" in a literal
\* that is not raw: the character U+0008 has to follow the keyword.  The
\* digits in front of the keyword may be the minutes of H:MM
PlainMinutes(plain_text) ==
    Leftmost({ i \in DOMAIN plain_text :
                 \/ Kinds(plain_text, i, << "num", "min", "bs" >>)
                 \/ Kinds(plain_text, i, << "time", "min", "bs" >>) })

\* int(match.group(1)) of a match at token i
Digits(token) == IF token.k = "time" THEN token.b ELSE token.a

\* de_date_time: am D.M. um|gegen [ca.] H:MM; the position of am, 0 if none
DeDateTime(plain_text) ==
    Leftmost({ i \in DOMAIN plain_text :
                 \/ Kinds(plain_text, i, << "am", "date", "um", "time" >>)
                 \/ Kinds(plain_text, i, << "am", "date", "um", "ca", "time" >>) })

\* de_time_only: um|gegen [ca.] H:MM; the position of the time, 0 if none
DeTimeOnly(plain_text) ==
    LET at == Leftmost({ i \in DOMAIN plain_text :
                           \/ Kinds(plain_text, i, << "um", "time" >>)
                           \/ Kinds(plain_text, i, << "um", "ca", "time" >>) })
    IN  IF at = 0 THEN 0
        ELSE IF plain_text[at + 1].k = "time" THEN at + 1 ELSE at + 2

IsColorDate(token) == token.k = "date" /\ token.hl = "color"
IsColorTime(token) == token.k = "time" /\ token.hl = "color"
IsTime(token) == token.k = "time"

\* time_matches when the rules for a time read it.  de_time_only stores the
\* time it captured in time_matches, and the assignment from time_pattern
\* that follows replaces it, whatever it was
TimeMatches(clean_text, is_knuspr) ==
    LET captured == IF is_knuspr /\ DeTimeOnly(StripTags(clean_text)) # 0
                    THEN << StripTags(clean_text)[DeTimeOnly(StripTags(clean_text))] >>
                    ELSE << >>
        time_matches == SelectSeq(clean_text, IsColorTime)
    IN  time_matches

IsLeap(year) == year % 4 = 0 /\ ( year % 100 # 0 \/ year % 400 = 0 )

DaysIn(year, month) ==
    IF month = 2 THEN ( IF IsLeap(year) THEN 29 ELSE 28 )
    ELSE IF month \in {4, 6, 9, 11} THEN 30 ELSE 31

\* raised inside a rule of the parser
ValueError == << "raises", "ValueError" >>

\* time(hour, minute)
ValidTime(hour, minute) == hour \in 0..23 /\ minute \in 0..59

\* every pair of hour and minute taken for a time of day
NewDatetime_Unchecked(year, month, day, hour, minute, tz) ==
    << "datetime", Datetime(year, month, day, hour, minute, 0, tz) >>

\* datetime(current_year, month, day, hour, minute, tzinfo=tz)
NewDatetime(year, month, day, hour, minute, tz) ==
    IF month \in 1..12 /\ day \in 1..DaysIn(year, month) /\ ValidTime(hour, minute)
    THEN << "datetime", Datetime(year, month, day, hour, minute, 0, tz) >>
    ELSE ValueError

\* the year after the current one
CurrentYear_Next(now) == now.year + 1

\* current_year: int = now.year
CurrentYear(now) == now.year

\* date + timedelta(days=1)
NextDay(d) ==
    IF d.day < DaysIn(d.year, d.month) THEN [ d EXCEPT !.day = @ + 1 ]
    ELSE IF d.month < 12 THEN [ d EXCEPT !.day = 1, !.month = @ + 1 ]
    ELSE [ d EXCEPT !.day = 1, !.month = 1, !.year = @ + 1 ]

\* now + timedelta(minutes=n), n below 1000: at most one day further
AddMinutes(now, n) ==
    LET total == now.hour * 60 + now.minute + n
        at == [ now EXCEPT !.hour = ( total % 1440 ) \div 60,
                           !.minute = ( total % 1440 ) % 60 ]
    IN  << "datetime", IF total < 1440 THEN at ELSE NextDay(at) >>

\* a < b on two datetimes of one zone: their wall-clock times are compared
Before(a, b) ==
    LET A == << a.year, a.month, a.day, a.hour, a.minute, a.second >>
        B == << b.year, b.month, b.day, b.hour, b.minute, b.second >>
    IN  \E i \in 1..6 : A[i] < B[i] /\ \A j \in 1..(i - 1) : A[j] = B[j]

\* the time of day always put on tomorrow's date
TodayOrTomorrow_Tomorrow(now, hour, minute) ==
    IF ~ ValidTime(hour, minute) THEN ValueError
    ELSE << "datetime",
            NextDay([ now EXCEPT !.hour = hour, !.minute = minute, !.second = 0 ]) >>

\* the time of day always put on today's date
TodayOrTomorrow_Today(now, hour, minute) ==
    IF ~ ValidTime(hour, minute) THEN ValueError
    ELSE << "datetime", [ now EXCEPT !.hour = hour, !.minute = minute, !.second = 0 ] >>

\* datetime.combine(today, time(hour, minute)), on tomorrow's date if that
\* is before now
TodayOrTomorrow(now, hour, minute) ==
    IF ~ ValidTime(hour, minute) THEN ValueError
    ELSE LET today == [ now EXCEPT !.hour = hour, !.minute = minute, !.second = 0 ]
         IN  << "datetime", IF Before(today, now) THEN NextDay(today) ELSE today >>

\* the value a rule of the parser returns, or NULL when the text does not
\* match it or its try block caught ValueError
RelativeMinutes(clean_text, now) ==
    IF SpanMinutes(clean_text) # 0
    THEN AddMinutes(now, Digits(clean_text[SpanMinutes(clean_text)]))
    ELSE IF PlainMinutes(StripTags(clean_text)) # 0
    THEN AddMinutes(now, Digits(clean_text[PlainMinutes(StripTags(clean_text))]))
    ELSE NULL

GermanDateTime(plain_text, is_knuspr, now) ==
    IF is_knuspr /\ DeDateTime(plain_text) # 0
    THEN LET date == plain_text[DeDateTime(plain_text) + 1]
             time == IF plain_text[DeDateTime(plain_text) + 3].k = "time"
                     THEN plain_text[DeDateTime(plain_text) + 3]
                     ELSE plain_text[DeDateTime(plain_text) + 4]
             dt == NewDatetime(CurrentYear(now), date.b, date.a, time.a, time.b, now.tz)
         IN  IF dt = ValueError THEN NULL ELSE dt
    ELSE NULL

DateAndTime(clean_text, is_knuspr, now) ==
    LET date_matches == SelectSeq(clean_text, IsColorDate)
        time_matches == TimeMatches(clean_text, is_knuspr)
    IN  IF Len(date_matches) > 0 /\ Len(time_matches) > 0
        THEN LET dt == NewDatetime(CurrentYear(now), date_matches[1].b, date_matches[1].a,
                                   time_matches[1].a, time_matches[1].b, now.tz)
             IN  IF dt = ValueError THEN NULL ELSE dt
        ELSE NULL

\* the rules for a time alone: the first of times, today or tomorrow
TimeOnly(times, now) ==
    IF Len(times) > 0 /\ TodayOrTomorrow(now, times[1].a, times[1].b) # ValueError
    THEN TodayOrTomorrow(now, times[1].a, times[1].b)
    ELSE NULL

\* the rules in the order the function tries them; with the relative
\* minutes tried last
Rules_MinutesLast(clean_text, is_knuspr, now) ==
    << GermanDateTime(StripTags(clean_text), is_knuspr, now),
       DateAndTime(clean_text, is_knuspr, now),
       TimeOnly(TimeMatches(clean_text, is_knuspr), now),
       TimeOnly(SelectSeq(StripTags(clean_text), IsTime), now),
       RelativeMinutes(clean_text, now) >>

Rules(clean_text, is_knuspr, now) ==
    << RelativeMinutes(clean_text, now),
       GermanDateTime(StripTags(clean_text), is_knuspr, now),
       DateAndTime(clean_text, is_knuspr, now),
       TimeOnly(TimeMatches(clean_text, is_knuspr), now),
       TimeOnly(SelectSeq(StripTags(clean_text), IsTime), now) >>

\* the value of the first rule that returns one; None when none does
FirstMatch(rules) ==
    IF \A i \in DOMAIN rules : rules[i] = NULL THEN NULL
    ELSE rules[Leftmost({ i \in DOMAIN rules : rules[i] # NULL })]

\* the value the function returns on a text that decodes
ExtractResult(text, is_knuspr, now) ==
    FirstMatch(Rules(Decode(text), is_knuspr, [ now EXCEPT !.tz = Zone(is_knuspr) ]))

\* one call of the function on an announcement of the vendor; now is what
\* datetime.now(tz=tz) reads
ExtractDeliveryDatetime(t) ==
    /\ pc[t] = "idle" /\ hubpc[t] = "idle"
    /\ \E text \in Texts, is_knuspr \in BOOLEAN, now \in Nows :
          /\ op' = [ op EXCEPT ![t] = "extract_delivery_datetime" ]
          /\ args' = [ args EXCEPT ![t] =
                         Args("extract_delivery_datetime",
                              [ text |-> text, is_knuspr |-> is_knuspr,
                                now |-> [ now EXCEPT !.tz = Zone(is_knuspr) ] ]) ]
          /\ IF DecodeExc(text) # NoExc
             THEN /\ pc' = [ pc EXCEPT ![t] = "raised" ]
                  /\ exc' = [ exc EXCEPT ![t] = DecodeExc(text) ]
                  /\ UNCHANGED ret
             ELSE /\ pc' = [ pc EXCEPT ![t] = "returned" ]
                  /\ ret' = [ ret EXCEPT ![t] =
                                Returned(ExtractResult(text, is_knuspr, now)) ]
                  /\ UNCHANGED exc
    /\ UNCHANGED << clientVars, sessState, calls, sensorVars, setupVars, behind, session, idx, result, reqs,
                    login_response, response, hubVars >>

ParserNext == \E t \in SeqTasks : ExtractDeliveryDatetime(t)

ParserSpec == Init /\ [][ParserNext]_vars

(***************************************************************************)
(* UpdateSensor (custom_components/rohlikcz/sensor.py): the entity that    *)
(* refreshes the account on a timer and chooses the timer's interval.      *)
(***************************************************************************)
\* _LONG_INTERVAL and _SHORT_INTERVAL, in seconds
LONG_INTERVAL == 600
SHORT_INTERVAL == 120

\* the callback every entity registers with the account
AsyncWriteHaState == "async_write_ha_state"

\* deliverySlot.since of the next order as the vendor sends it: a time so
\* many seconds after now, or text that strptime refuses
Sinces == { << "in", d >> : d \in {0 - 1, 0, 7200, 7201} } \cup { << "text" >> }

\* the list of upcoming orders in the vendor's reply: no order, an order
\* without deliverySlot.since, an order with it
NextOrders ==
    { << "list", << >> >>, << "list", << [ k \in {} |-> NULL ] >> >> }
    \cup { << "list", << [ since |-> s ] >> >> : s \in Sinces }

\* self._rohlik_account.data.get("next_order", []): None when the request
\* for the orders failed, the orders of the reply otherwise
NextOrderLists(snapshot) ==
    IF Get(snapshot, "next_order", << >>) = NULL THEN {NULL} ELSE NextOrders

\* async_track_time_interval(...) after the timer in use was cancelled
Rescheduled(cur, all, interval) ==
    Append(IF cur = NULL THEN all ELSE [ all EXCEPT ![cur[2]].active = FALSE ],
           [ interval |-> interval, active |-> TRUE ])

\* _schedule_updates(interval)
ScheduleUpdates(interval) ==
    /\ timers' = Rescheduled(unsub_timer, timers, interval)
    /\ unsub_timer' = << "timer", Len(timers) + 1 >>

\* async_added_to_hass(), called once for the entity
AsyncAddedToHass ==
    /\ unsub_timer = NULL
    /\ callbacks' = callbacks \cup {AsyncWriteHaState}
    /\ ScheduleUpdates(LONG_INTERVAL)
    /\ UNCHANGED << setupVars, behind, clientVars, sessState, calls, op, pc, session, idx, result, reqs,
                    exc, ret, login_response, opVars, data, hubop, hubpc, hubargs,
                    hubresult, hubret, hubexc, notified, sensorpc, next_order_list >>

\* the callback removed and the timer left running
AsyncWillRemoveFromHass_KeepTimer ==
    /\ unsub_timer # NULL /\ timers[unsub_timer[2]].active
    /\ AsyncWriteHaState \in callbacks
    /\ callbacks' = callbacks \ {AsyncWriteHaState}
    /\ UNCHANGED << clientVars, sessState, calls, op, pc, session, idx, result, reqs,
                    exc, ret, login_response, opVars, data, hubop, hubpc, hubargs,
                    hubresult, hubret, hubexc, notified, sensorVars, setupVars, behind >>

\* async_will_remove_from_hass(), called once for an entity that was added
AsyncWillRemoveFromHass ==
    /\ unsub_timer # NULL /\ timers[unsub_timer[2]].active
    /\ callbacks' = callbacks \ {AsyncWriteHaState}
    /\ timers' = [ timers EXCEPT ![unsub_timer[2]].active = FALSE ]
    /\ UNCHANGED << setupVars, behind, clientVars, sessState, calls, op, pc, session, idx, result, reqs,
                    exc, ret, login_response, opVars, data, hubop, hubpc, hubargs,
                    hubresult, hubret, hubexc, notified, unsub_timer, sensorpc,
                    next_order_list >>

\* the timer fires: _scheduled_update() calls async_update(), which awaits
\* the refresh of the account
SensorUpdateStart(t) ==
    /\ sensorpc[t] # "awaiting"
    /\ \E i \in DOMAIN timers : timers[i].active
    /\ HubCall(t, "async_update", NoArgs, "update")
    /\ GetDataEnter(t)
    /\ sensorpc' = [ sensorpc EXCEPT ![t] = "awaiting" ]
    /\ UNCHANGED << setupVars, behind, unsub_timer, timers, next_order_list >>

\* since_str parses and 0 <= (delivery_since - now).total_seconds() <= 7200
WithinTwoHours(list) ==
    IF list = NULL THEN FALSE
    ELSE IF Len(list[2]) = 0 THEN FALSE
    ELSE IF Get(list[2][1], "since", NULL) = NULL THEN FALSE
    ELSE IF list[2][1].since[1] = "text" THEN FALSE
    ELSE 0 <= list[2][1].since[2] /\ list[2][1].since[2] <= 7200

DesiredInterval(within_two_hours) ==
    IF within_two_hours THEN SHORT_INTERVAL ELSE LONG_INTERVAL

\* current_short = self._unsub_timer is not None and
\*                 desired_interval == self._SHORT_INTERVAL
CurrentShort(cur, all, desired_interval) ==
    cur # NULL /\ desired_interval = SHORT_INTERVAL

\* async_update() once the refresh has returned: the interval is chosen
\* from the first upcoming order of the snapshot
SensorUpdateFinish(t) ==
    /\ sensorpc[t] = "awaiting" /\ hubop[t] = "async_update" /\ hubpc[t] = "returned"
    /\ \E list \in NextOrderLists(data) :
          /\ next_order_list' = [ next_order_list EXCEPT ![t] = list ]
          /\ IF WithinTwoHours(list)
                # CurrentShort(unsub_timer, timers, DesiredInterval(WithinTwoHours(list)))
             THEN ScheduleUpdates(DesiredInterval(WithinTwoHours(list)))
             ELSE UNCHANGED << unsub_timer, timers >>
    /\ sensorpc' = [ sensorpc EXCEPT ![t] = "done" ]
    /\ UNCHANGED << setupVars, behind, clientVars, sessState, calls, op, pc, session, idx, result, reqs,
                    exc, ret, login_response, opVars, hubVars >>

\* the refresh raised: the exception leaves async_update()
SensorUpdateRaise(t) ==
    /\ sensorpc[t] = "awaiting" /\ hubpc[t] = "raised"
    /\ sensorpc' = [ sensorpc EXCEPT ![t] = "raised" ]
    /\ UNCHANGED << setupVars, behind, clientVars, sessState, calls, op, pc, session, idx, result, reqs,
                    exc, ret, login_response, opVars, hubVars, unsub_timer, timers,
                    next_order_list >>

SensorNext ==
    \/ AsyncAddedToHass
    \/ AsyncWillRemoveFromHass
    \/ \E t \in SeqTasks :
        \/ SensorUpdateStart(t)
        \/ \E reply \in HubLoginReplies : GetDataLogin(t, reply)
        \/ GetDataSkip(t)
        \/ GetDataEndpoint(t, "ok")
        \/ \E reply \in HubReplies, cart_data \in HubCarts : GetDataCart(t, reply, cart_data)
        \/ GetDataClose(t)
        \/ AsyncUpdatePublish(t)
        \/ HubRaise(t)
        \/ SensorUpdateFinish(t)
        \/ SensorUpdateRaise(t)

SensorSpec == Init /\ [][SensorNext]_vars

(***************************************************************************)
(* Observations used by the properties.                                    *)
(***************************************************************************)
\* login() of task t's invocation got a JSON reply with vendor status 200
LoginOk(t) == login_response[t].kind = "json" /\ login_response[t].status = 200

\* login() of task t's invocation got a reply that makes it fail
LoginFailed(t) ==
    \/ login_response[t].kind = "transport"
    \/ login_response[t].kind = "json" /\ login_response[t].status # 200

\* the login reply of task t's invocation carries no address id
NoAddressInReply(t) == login_response[t].address \in {NULL, MISSING}

\* task t's invocation issued a request for resource k
Requested(t, k) == \E i \in DOMAIN reqs[t] : reqs[t][i].kind = k

\* ... and that request failed (transport or HTTP error)
FailedRequest(t, k) ==
    \E i \in DOMAIN reqs[t] : reqs[t][i].kind = k /\ reqs[t][i].outcome = "failed"

\* the mapping get_data() of task t returned
Snapshot(t) == ret[t][2]

(***************************************************************************)
(* C1: in get_data(), after a successful login, a failure of one of the    *)
(* nine fixed endpoints sets that endpoint's key to null, the remaining    *)
(* endpoints are still requested, and get_data() returns a snapshot        *)
(* instead of raising.                                                     *)
(***************************************************************************)
C1_EndpointFailureStillReturns ==
    \A t \in Tasks, e \in Endpoints :
        ( op[t] = "get_data" /\ pc[t] \in Ended /\ LoginOk(t) /\ FailedRequest(t, e) )
        => /\ result[t][e] = NULL
           /\ \A f \in Endpoints :
                 Requested(t, f) \/ ( f = "next_delivery_slot" /\ f \in DOMAIN result[t] )
           /\ pc[t] = "returned"

(***************************************************************************)
(* C2: when the cart fetch fails after a successful login, get_data()      *)
(* returns a snapshot whose cart key is null and whose other keys keep the *)
(* values already fetched; the failure does not leave get_data().          *)
(***************************************************************************)
C2_CartFailureGivesNull ==
    \A t \in Tasks :
        ( op[t] = "get_data" /\ pc[t] \in Ended /\ LoginOk(t) /\ FailedRequest(t, "cart") )
        => /\ pc[t] = "returned"
           /\ exc[t] = NoExc
           /\ DOMAIN Snapshot(t) = SnapshotKeys
           /\ Snapshot(t)["cart"] = NULL
           /\ \A k \in SnapshotKeys \ {"cart"} : Snapshot(t)[k] = result[t][k]

(***************************************************************************)
(* C3: every session get_data() opened is closed when get_data() has       *)
(* returned or raised, on every path, the failing login included.          *)
(***************************************************************************)
C3_SessionClosedOnEveryPath ==
    \A t \in Tasks :
        ( op[t] = "get_data" /\ pc[t] \in Ended ) => sessState[session[t]] = "closed"

(***************************************************************************)
(* C4: whenever get_data() returns, the returned mapping has exactly the   *)
(* eleven snapshot keys, each present (possibly null), and its login value *)
(* is not null.                                                            *)
(***************************************************************************)
C4_ReturnedMappingComplete ==
    \A t \in Tasks :
        ( op[t] = "get_data" /\ pc[t] = "returned" )
        => /\ ret[t] # NoReturn
           /\ DOMAIN Snapshot(t) = SnapshotKeys
           /\ Snapshot(t)["login"] # NULL

\* get_data() returned a complete mapping with null entries in it
C4_Witness ==
    \E t \in Tasks :
        /\ op[t] = "get_data" /\ pc[t] = "returned"
        /\ DOMAIN Snapshot(t) = SnapshotKeys
        /\ Snapshot(t)["next_delivery_slot"] = NULL
        /\ ~ Requested(t, "next_delivery_slot")
        /\ Snapshot(t)["bags"] = NULL
        /\ Snapshot(t)["cart"] # NULL

(***************************************************************************)
(* C6: if login fails inside get_data() (invalid credentials, another      *)
(* vendor status, or a transport failure), get_data() raises, returns no   *)
(* mapping, and issues no request to a read endpoint or to the cart.       *)
(***************************************************************************)
C6_LoginFailureIsFatal ==
    \A t \in Tasks :
        ( op[t] = "get_data" /\ LoginFailed(t) )
        => /\ pc[t] = "raised"
           /\ exc[t] # NoExc
           /\ ret[t] = NoReturn
           /\ \A i \in DOMAIN reqs[t] : reqs[t][i].kind = "login"

\* get_data() raised on a login the vendor refused, and on one that failed
\* in transport
C6_Witness ==
    \E t \in Tasks :
        /\ op[t] = "get_data" /\ pc[t] = "raised" /\ LoginFailed(t)
        /\ login_response[t].kind = "transport"
        /\ calls = 2
        /\ Len(reqs[t]) = 1

C8_NoAddressNoSlotRequest ==
    \A t \in Tasks :
        ( op[t] = "get_data" /\ LoginOk(t) /\ NoAddressInReply(t) )
        => /\ ~ Requested(t, "next_delivery_slot")
           /\ "next_delivery_slot" \in DOMAIN result[t]
                 => result[t]["next_delivery_slot"] = NULL

(***************************************************************************)
(* C9: after any login() that returns (vendor status 200) the client's     *)
(* user_id is non-null; when the response has no address (missing or       *)
(* null) login() does not raise and address_id stays as it was, so a null  *)
(* address_id stays null.                                                  *)
(***************************************************************************)
C9_UserStored == \A t \in Tasks : LoginOk(t) => user_id \in UserIds

C9_AddressStep ==
    \A t \in Tasks :
        ( pc[t] = "login" /\ LoginOk(t)' /\ NoAddressInReply(t)' )
        => /\ pc'[t] = "loop"
           /\ exc'[t] = NoExc
           /\ address_id' = address_id

C10_EveryCallHasTimeout ==
    \A t \in Tasks :
        \A i \in DOMAIN reqs[t] :
            reqs[t][i].outcome = "unanswered"
            => reqs[t][i].timeout # NULL /\ pc[t] # "blocked"

(***************************************************************************)
(* Two runs of get_data() side by side, for the claims that compare runs.  *)
(* Task RunA takes a step, then task RunB takes the same step of its own   *)
(* run.  RunB gets the login reply and the cart RunA got, and replies of   *)
(* the same outcome as RunA's, except for one request at most.             *)
(***************************************************************************)
RunA == "t1"
RunB == "t2"

\* how far task t is in get_data()
Position(t) ==
    CASE pc[t] = "idle" -> 0
      [] pc[t] = "login" -> 1
      [] pc[t] = "loop" -> 1 + idx[t]
      [] pc[t] = "cart" -> 2 + Len(EndpointOrder)
      [] pc[t] = "close" -> 3 + Len(EndpointOrder)
      [] OTHER -> 4 + Len(EndpointOrder)

\* the requests whose outcome is not the same in the two runs
Differing ==
    { i \in DOMAIN reqs[RunA] \cap DOMAIN reqs[RunB] :
        reqs[RunA][i].outcome # reqs[RunB][i].outcome }

DifferingKinds == { reqs[RunA][i].kind : i \in Differing }

\* the login replies of the paired runs: the login succeeds
PairLoginReplies == { r \in LoginBodies : r.status = 200 /\ r.user = << "user", 11 >> }

PairGetReplies == GetReplies \ {"silent"}

\* RunA steps when the two runs are level, RunB when it is behind
PairTurn(t) ==
    IF t = RunA THEN Position(RunA) = Position(RunB)
    ELSE Position(RunB) < Position(RunA)

\* the replies of RunB so far differ from RunA's in one request at most, and
\* both runs see the same cart
SameButOne ==
    /\ Cardinality(Differing') <= 1
    /\ ( "cart" \in DOMAIN result'[RunA] /\ "cart" \in DOMAIN result'[RunB] )
          => result'[RunB]["cart"] = result'[RunA]["cart"]

PairStart(t) == PairTurn(t) /\ pc[t] = "idle" /\ GetDataStart(t)

PairLogin(t, reply) ==
    /\ PairTurn(t)
    /\ t = RunB => reply = login_response[RunA]
    /\ GetDataLogin(t, reply)

PairSkip(t) == PairTurn(t) /\ GetDataSkip(t)

PairEndpoint(t, reply) == PairTurn(t) /\ GetDataEndpoint(t, reply) /\ SameButOne

PairCart(t, reply, cart_data) == PairTurn(t) /\ GetDataCart(t, reply, cart_data) /\ SameButOne

PairClose(t) == PairTurn(t) /\ GetDataClose(t)

PairNext ==
    \E t \in {RunA, RunB} :
        \/ PairStart(t)
        \/ \E reply \in PairLoginReplies : PairLogin(t, reply)
        \/ PairSkip(t)
        \/ \E reply \in PairGetReplies : PairEndpoint(t, reply)
        \/ \E reply \in PairGetReplies, cart_data \in VendorCarts : PairCart(t, reply, cart_data)
        \/ PairClose(t)

PairSpec == Init /\ [][PairNext]_vars

(***************************************************************************)
(* C5: in get_data(), whether the request for X fails or succeeds does not *)
(* change the value stored under another key Y: two runs that differ only  *)
(* in X's outcome hold the same value under every other key.               *)
(***************************************************************************)
C5_NonInterference ==
    Position(RunA) = Position(RunB)
    => \A Y \in SnapshotKeys \ DifferingKinds :
          /\ Y \in DOMAIN result[RunA] <=> Y \in DOMAIN result[RunB]
          /\ Y \in DOMAIN result[RunA] => result[RunA][Y] = result[RunB][Y]
          /\ ( pc[RunA] = "returned" /\ pc[RunB] = "returned" )
                => Snapshot(RunA)[Y] = Snapshot(RunB)[Y]

\* both runs returned; the request for bags failed in one run only, and the
\* keys handled before and after it hold a fetched value in both
C5_Witness ==
    /\ pc[RunA] = "returned" /\ pc[RunB] = "returned"
    /\ DifferingKinds = {"bags"}
    /\ Snapshot(RunA)["bags"] = NULL
    /\ Snapshot(RunB)["bags"] = Body("bags")
    /\ Snapshot(RunB)["announcements"] = Body("announcements")
    /\ Snapshot(RunB)["timeslot"] = Body("timeslot")
    /\ Snapshot(RunB)["next_delivery_slot"] = Body("next_delivery_slot")

(***************************************************************************)
(* Observations on the operations with a session of their own.             *)
(***************************************************************************)
IsCartPost(r) == r.kind = "cart_post"

Answered(r) == r.outcome = "answered"

\* the POSTs to the cart task t's invocation issued, in order
CartPosts(t) == SelectSeq(reqs[t], IsCartPost)

\* the product ids of the POSTs that succeeded, in order
PostedIds(t) ==
    [ i \in 1..Len(SelectSeq(CartPosts(t), Answered)) |->
        SelectSeq(CartPosts(t), Answered)[i].params[1] ]

\* the value task t's operation returned
ReturnValue(t) == ret[t][2]

\* the last request task t's invocation issued
LastRequest(t) == reqs[t][Len(reqs[t])]

C12_OwnSessionClosed ==
    \A t \in Tasks :
        ( op[t] \in MutatingOps /\ pc[t] \in Ended ) => sessState[session[t]] = "closed"

(***************************************************************************)
(* C16: search_product never returns an entry with a badge of slug         *)
(* promoted; with favourite = true every returned entry is flagged         *)
(* favourite; the returned list has at most limit entries, in the vendor's *)
(* order; and when nothing remains after the filters the result is null,   *)
(* never an empty list.                                                    *)
(***************************************************************************)
\* the position of the product with this id in the vendor's list
PositionOf(listing, id) == CHOOSE k \in DOMAIN listing : listing[k].productId = id

\* a product of the vendor's list passes the filters of this invocation
Eligible(t, p) == ~ Promoted(p) /\ ( Arg(t).favourite => Favourite(p) )

C16_SearchResultFiltered ==
    \A t \in Tasks :
        ( op[t] = "search_product" /\ pc[t] = "returned" /\ response[t] # NoBody )
        => LET listing == response[t][3] IN
           IF ReturnValue(t) = NULL
           THEN TRUE
           ELSE LET found == ReturnValue(t)[2].search_results IN
                /\ Len(found) > 0
                /\ Len(found) <= Arg(t).limit
                /\ \A i \in DOMAIN found :
                      \E k \in DOMAIN listing :
                          /\ listing[k].productId = found[i].id
                          /\ Eligible(t, listing[k])
                /\ \A i, j \in DOMAIN found :
                      i < j => PositionOf(listing, found[i].id)
                                  < PositionOf(listing, found[j].id)

\* nothing remains after the filters: the result is null
C16_NullWhenNothingRemains ==
    \A t \in Tasks :
        ( /\ op[t] = "search_product" /\ pc[t] = "returned" /\ response[t] # NoBody
          /\ \/ Arg(t).limit = 0
             \/ \A k \in DOMAIN response[t][3] : ~ Eligible(t, response[t][3][k]) )
        => ReturnValue(t) = NULL

C18_MissingIdFailsBeforeLogin ==
    \A t \in Tasks :
        ( op[t] = "get_shopping_list"
          /\ Arg(t).shopping_list_id \in { NULL, << "id", "" >> } )
        => /\ reqs[t] = << >>
           /\ login_response[t] = NoReply
           /\ exc[t] = "ValueError"
           /\ pc[t] \in {"close", "raised"}
           /\ ret[t] = NoReturn
           /\ pc[t] = "raised" => sessState[session[t]] = "closed"

\* get_shopping_list("") has raised and its session is closed
C18_Witness ==
    \E t \in Tasks :
        /\ op[t] = "get_shopping_list" /\ Arg(t).shopping_list_id = << "id", "" >>
        /\ pc[t] = "raised" /\ exc[t] = "ValueError"
        /\ reqs[t] = << >>
        /\ sessState[session[t]] = "closed"

(***************************************************************************)
(* C19: delete_from_cart: when the DELETE succeeds with a JSON body the    *)
(* decoded body is returned; when it succeeds with a body that is not JSON *)
(* the result is {success: true, status_code: <HTTP status>} and nothing   *)
(* is raised; a transport or HTTP error raises APIRequestFailedError.      *)
(***************************************************************************)
C19_DeleteOutcome ==
    \A t \in Tasks :
        ( op[t] = "delete_from_cart" /\ pc[t] \in Ended /\ Requested(t, "cart_delete") )
        => /\ ( LastRequest(t).outcome = "answered" /\ response[t][1] = "json" )
                 => /\ pc[t] = "returned"
                    /\ ReturnValue(t) = << "json", response[t][3] >>
           /\ ( LastRequest(t).outcome = "answered" /\ response[t][1] = "text" )
                 => /\ pc[t] = "returned" /\ exc[t] = NoExc
                    /\ ReturnValue(t) =
                          << "dict", [ success |-> TRUE, status_code |-> response[t][2] ] >>
           /\ LastRequest(t).outcome = "failed"
                 => pc[t] = "raised" /\ exc[t] = "APIRequestFailedError"

\* the DELETE was answered 204 without a JSON body and delete_from_cart
\* returned the substitute
C19_Witness ==
    \E t \in Tasks :
        /\ op[t] = "delete_from_cart" /\ pc[t] = "returned"
        /\ response[t] = HttpBody("text", 204, "")
        /\ ReturnValue(t)[2].status_code = 204

(***************************************************************************)
(* C20: get_cart_content() returns a mapping with total_price,             *)
(* total_items, can_make_order and products, where products has one line   *)
(* item {id, cart_item_id, name, quantity, price, category_name, brand}    *)
(* per item of the vendor's cart and total_items is the length of          *)
(* products (0 and an empty list when the reply has no items).             *)
(***************************************************************************)
CartInfoKeys == {"total_price", "total_items", "can_make_order", "products"}

LineItemKeys ==
    {"id", "cart_item_id", "name", "quantity", "price", "category_name", "brand"}

\* the items of the cart the vendor sent to task t
VendorItems(t) ==
    IF "items" \in DOMAIN response[t][3] THEN response[t][3].items ELSE << >>

C20_CartNormalised ==
    \A t \in Tasks :
        ( op[t] = "get_cart_content" /\ pc[t] = "returned" )
        => LET cart_info == ReturnValue(t)[2] IN
           /\ DOMAIN cart_info = CartInfoKeys
           /\ Len(cart_info.products) = Len(VendorItems(t))
           /\ \A i \in DOMAIN cart_info.products :
                 /\ DOMAIN cart_info.products[i] = LineItemKeys
                 /\ cart_info.products[i].id = VendorItems(t)[i].productId
                 /\ cart_info.products[i].cart_item_id = VendorItems(t)[i].orderFieldId
                 /\ cart_info.products[i].name = VendorItems(t)[i].productName
                 /\ cart_info.products[i].quantity = VendorItems(t)[i].quantity
                 /\ cart_info.products[i].price = VendorItems(t)[i].price
           /\ cart_info.total_items = Len(cart_info.products)
           /\ VendorItems(t) = << >>
                 => cart_info.total_items = 0 /\ cart_info.products = << >>

\* a cart of two items came back with two line items
C20_Witness ==
    \E t \in Tasks :
        /\ op[t] = "get_cart_content" /\ pc[t] = "returned"
        /\ Len(VendorItems(t)) = 2
        /\ ReturnValue(t)[2].total_items = 2
        /\ ReturnValue(t)[2].products[2].id = 102

(***************************************************************************)
(* C13: a session is used only by the invocation that created it: in any   *)
(* interleaving of operations running side by side on the same client,     *)
(* every request of an invocation goes out on that invocation's session,   *)
(* no two invocations hold the same session, and get_data() is the only    *)
(* operation that issues requests of more than one kind besides the login  *)
(* on one session.                                                         *)
(***************************************************************************)
\* the kinds of the requests, the login apart, that task t's invocation issued
NonLoginKinds(t) ==
    { reqs[t][i].kind : i \in { j \in DOMAIN reqs[t] : reqs[t][j].kind # "login" } }

C13_SessionOwnedByInvocation ==
    /\ \A t \in Tasks : \A i \in DOMAIN reqs[t] : reqs[t][i].sid = session[t]
    /\ \A t, u \in Tasks :
          ( t # u /\ op[t] # "none" /\ op[u] # "none" ) => session[t] # session[u]
    /\ \A t \in Tasks : op[t] # "get_data" => Cardinality(NonLoginKinds(t)) <= 1

\* get_data() of one task and add_to_cart() of the other are both under way,
\* each with requests sent on its own session
C13_Witness ==
    \E t, u \in Tasks :
        /\ op[t] = "get_data" /\ pc[t] = "cart"
        /\ Cardinality(NonLoginKinds(t)) > 1
        /\ op[u] = "add_to_cart" /\ pc[u] = "close"
        /\ NonLoginKinds(u) = {"cart_post"}
        /\ session[t] # session[u]
        /\ sessState[session[t]] = "open" /\ sessState[session[u]] = "open"

(***************************************************************************)
(* C14: the account's snapshot is only ever replaced as a whole: wherever  *)
(* another task can read RohlikAccount.data it is the complete previous    *)
(* snapshot or the complete mapping one get_data() call returned, never a  *)
(* mapping that holds part of a refresh under way.                         *)
(***************************************************************************)
C14_DataComplete == data = EmptyMap \/ DOMAIN data = SnapshotKeys

C14_ReplaceStep ==
    data' # data
    => \E t \in Tasks :
          /\ op[t] = "get_data" /\ pc[t] = "returned"
          /\ data' = ReturnValue(t)
          /\ DOMAIN data' = SnapshotKeys

\* C14: both parts, in every reachable state and every step
C14_SnapshotReplacedWhole == [] C14_DataComplete /\ [][C14_ReplaceStep]_vars

\* a complete snapshot is stored while the refresh of the other task has
\* fetched part of the next one
C14_Witness ==
    \E t, u \in Tasks :
        /\ hubop[t] = "async_update" /\ hubpc[t] = "returned"
        /\ op[t] = "get_data" /\ pc[t] = "returned"
        /\ data = ReturnValue(t) /\ DOMAIN data = SnapshotKeys
        /\ hubop[u] = "async_update" /\ op[u] = "get_data" /\ pc[u] = "loop"
        /\ "bags" \in DOMAIN result[u] /\ "cart" \notin DOMAIN result[u]

(***************************************************************************)
(* C15: on every replacement of the snapshot in async_update(), every      *)
(* callback registered at that moment is called exactly once before        *)
(* async_update() returns, also when one of the callbacks fails; a removed *)
(* callback is not called by later refreshes, and removing a callback that *)
(* is not registered changes nothing.                                      *)
(***************************************************************************)
\* how often publish_updates() of task t called this callback
TimesCalled(called, callback) ==
    Cardinality({ i \in DOMAIN called : called[i] = callback })

C15_PublishStep ==
    \A t \in Tasks :
        ( hubpc[t] = "update" /\ pc[t] = "returned" /\ hubpc'[t] \in Ended )
        => /\ \A callback \in callbacks : TimesCalled(notified'[t], callback) = 1
           /\ \A callback \in Callbacks \ callbacks : TimesCalled(notified'[t], callback) = 0

C15_RemoveStep ==
    \A callback \in Callbacks :
        ( callback \notin callbacks /\ RemoveCallback(callback) ) => UNCHANGED vars

C15_CallbacksAllNotified == [][C15_PublishStep /\ C15_RemoveStep]_vars

(***************************************************************************)
(* C17: search_and_add with no matching product returns {success: false,   *)
(* added_to_cart: []} with a non-empty message, performs no cart POST and  *)
(* no refresh of the snapshot, and does not raise.                         *)
(***************************************************************************)
\* the search of task t's search_and_add has returned None and the method
\* has not gone on yet
SearchFoundNothing(t) ==
    /\ hubop[t] = "search_and_add" /\ hubpc[t] = "search"
    /\ op[t] = "search_product" /\ pc[t] = "returned"
    /\ ReturnValue(t) = NULL

C17_NoMatchStep ==
    \A t \in Tasks :
        ( SearchFoundNothing(t) /\ hubpc'[t] # hubpc[t] )
        => /\ hubpc'[t] = "returned"
           /\ hubexc'[t] = NoExc
           /\ hubret'[t][1] = "returned"
           /\ hubret'[t][2][2].success = FALSE
           /\ hubret'[t][2][2].added_to_cart = << >>
           /\ \E i \in DOMAIN hubret'[t][2][2].message : hubret'[t][2][2].message[i] # ""
           /\ UNCHANGED << op, pc, reqs, sessState, data, notified >>

C17_NoMatchIsStructuredFailure == [][C17_NoMatchStep]_vars

\* search_and_add for favourites found nothing and returned the failure;
\* the search is the only operation of the client it ran
C17_Witness ==
    \E t \in Tasks :
        /\ hubop[t] = "search_and_add" /\ hubpc[t] = "returned"
        /\ hubargs[t][2].favourite
        /\ op[t] = "search_product" /\ response[t] # NoBody
        /\ hubret[t][2][2].success = FALSE
        /\ hubret[t][2][2].message[4] = " in favourites"
        /\ ~ Requested(t, "cart_post")
        /\ data = EmptyMap

(***************************************************************************)
(* C21: no request is retried.  Within one get_data() call each of the     *)
(* nine read endpoints and the cart endpoint is requested at most once,    *)
(* and within one add_to_cart call each item is posted at most once,       *)
(* whatever the outcomes: the POSTs issued so far are those of the first   *)
(* items of the list, one each and in order.                               *)
(***************************************************************************)
\* the positions of task t's requests for resource k
RequestsFor(t, k) == { i \in DOMAIN reqs[t] : reqs[t][i].kind = k }

C21_NoRequestRetried ==
    \A t \in Tasks :
        /\ op[t] = "get_data"
           => \A k \in Endpoints \cup {"cart", "login"} :
                 Cardinality(RequestsFor(t, k)) <= 1
        /\ op[t] = "add_to_cart"
           => /\ Len(CartPosts(t)) <= Len(Arg(t).product_list)
              /\ \A i \in DOMAIN CartPosts(t) :
                    CartPosts(t)[i].params =
                       << Arg(t).product_list[i].product_id,
                          Arg(t).product_list[i].quantity >>
              /\ Cardinality(RequestsFor(t, "login")) <= 1

\* the second call on the client, add_to_cart() on two different items,
\* returned although the POST of the first item failed: it issued two
\* POSTs, the second for the second item
C21_Witness ==
    \E t \in Tasks :
        /\ calls = 2
        /\ op[t] = "add_to_cart" /\ pc[t] = "returned"
        /\ Len(Arg(t).product_list) = 2
        /\ Arg(t).product_list[1].product_id # Arg(t).product_list[2].product_id
        /\ Len(CartPosts(t)) = 2
        /\ CartPosts(t)[1].outcome = "failed"
        /\ CartPosts(t)[2].params[1] = Arg(t).product_list[2].product_id
        /\ user_id # NULL

(***************************************************************************)
(* C30: in get_data() the requests are ordered.  The login request has     *)
(* completed successfully before any endpoint GET is issued; the cart GET  *)
(* is issued after all nine fixed endpoints were handled, on the same      *)
(* session and without a second login; and no request is issued on the     *)
(* session after it was closed.                                            *)
(***************************************************************************)
\* the login is the first request, the only login, and it succeeded before
\* any other request; every request uses the session of the invocation
C30_LoginFirst ==
    \A t \in Tasks :
        op[t] = "get_data"
        => /\ \A i \in DOMAIN reqs[t] :
                 /\ reqs[t][i].sid = session[t]
                 /\ reqs[t][i].kind = "login" <=> i = 1
           /\ Len(reqs[t]) > 1 => ( reqs[t][1].outcome = "answered" /\ LoginOk(t) )

\* the cart GET comes after every endpoint was handled: each has its key
\* in result, and no endpoint is requested after the cart
C30_CartLast ==
    \A t \in Tasks :
        ( op[t] = "get_data" /\ Requested(t, "cart") )
        => /\ \A e \in Endpoints : e \in DOMAIN result[t]
           /\ LastRequest(t).kind = "cart"

\* a step that issues a request finds the session open
C30_RequestStep ==
    \A t \in Tasks :
        ( op'[t] = "get_data" /\ Len(reqs'[t]) > Len(reqs[t]) )
        => /\ session'[t] = session[t]
           /\ sessState[session[t]] = "open"

C30_RequestsOrdered ==
    [] ( C30_LoginFirst /\ C30_CartLast ) /\ [][C30_RequestStep]_vars

\* get_data() returned after eleven requests, the last of them the cart
\* GET, and its session is closed
C30_Witness ==
    \E t \in Tasks :
        /\ op[t] = "get_data" /\ pc[t] = "returned"
        /\ Len(reqs[t]) = 11
        /\ reqs[t][1].kind = "login"
        /\ reqs[t][11].kind = "cart"
        /\ sessState[session[t]] = "closed"
        /\ calls = 2

(***************************************************************************)
(* Observations on a call of extract_delivery_datetime.  The expected      *)
(* values are counted in days and seconds from 1 January 2024, from a      *)
(* table of the months of the years 2024 and 2025.                         *)
(***************************************************************************)
ParserCalled(t) == op[t] = "extract_delivery_datetime"

HasKind(text, k) == \E i \in DOMAIN text : text[i].k = k

\* a token of kind k at position i, of kind l right after it
Followed(text, i, k, l) ==
    i + 1 <= Len(text) /\ text[i].k = k /\ text[i + 1].k = l

DaysBeforeMonth == << 0, 31, 60, 91, 121, 152, 182, 213, 244, 274, 305, 335 >>

DayNumber(d) ==
    ( d.year - 2024 ) * 366 + DaysBeforeMonth[d.month] + d.day
    - ( IF d.year # 2024 /\ d.month > 2 THEN 1 ELSE 0 )

SecondOfDay(d) == d.hour * 3600 + d.minute * 60 + d.second

Instant(d) == DayNumber(d) * 86400 + SecondOfDay(d)

WellFormed(d) ==
    /\ d.month \in 1..12 /\ d.day \in 1..31
    /\ d.hour \in 0..23 /\ d.minute \in 0..59 /\ d.second \in 0..59
    /\ ~ ( d.month \in {4, 6, 9, 11} /\ d.day > 30 )
    /\ ~ ( d.month = 2 /\ d.day > ( IF d.year = 2024 THEN 29 ELSE 28 ) )

IsDatetime(v) == v[1] = "datetime" /\ WellFormed(v[2])

\* v is hour:minute of today, or of tomorrow when that is before now
IsTodayOrTomorrowAt(v, now, hour, minute) ==
    /\ IsDatetime(v)
    /\ v[2].hour = hour /\ v[2].minute = minute /\ v[2].second = 0
    /\ v[2].tz = now.tz
    /\ DayNumber(v[2]) =
         DayNumber(now)
         + ( IF hour * 3600 + minute * 60 < SecondOfDay(now) THEN 1 ELSE 0 )

\* v is the given day and month of the year of now, at hour:minute
IsThisYearAt(v, now, day, month, hour, minute) ==
    /\ IsDatetime(v)
    /\ v[2] = [ year |-> now.year, month |-> month, day |-> day, hour |-> hour,
                minute |-> minute, second |-> 0, tz |-> now.tz ]

ColorDates(text) == SelectSeq(text, LAMBDA x : x.k = "date" /\ x.hl = "color")
ColorTimes(text) == SelectSeq(text, LAMBDA x : x.k = "time" /\ x.hl = "color")
AllTimes(text) == SelectSeq(text, LAMBDA x : x.k = "time")

GoodTime(x) == x.a \in 0..23 /\ x.b \in 0..59
GoodDate(x) == x.b \in 1..12 /\ x.a >= 1 /\ WellFormed([ year |-> 2024, month |-> x.b,
                   day |-> x.a, hour |-> 0, minute |-> 0, second |-> 0 ])

\* no rule in front of the rules for highlighted spans can match: no minutes
\* keyword, and no German date (am D.M.) when the flag is set
NoEarlierRule(text, is_knuspr) ==
    ~ HasKind(text, "min") /\ ( is_knuspr => ~ HasKind(text, "am") )

(***************************************************************************)
(* C22: extract_delivery_datetime never raises, for any input string and   *)
(* either locale flag: every failure, including a failure while decoding   *)
(* the input text, yields null.                                            *)
(***************************************************************************)
C22_ParserNeverRaises ==
    \A t \in Tasks :
        ParserCalled(t) => ( pc[t] = "returned" /\ exc[t] = NoExc )

(***************************************************************************)
(* C23: the first matching rule decides.  A highlighted number followed by *)
(* a minutes keyword gives now + N minutes, whatever highlighted date and  *)
(* time spans or other H:MM the text holds besides; and when no earlier    *)
(* rule can match and a highlighted date and a highlighted time both       *)
(* parse, the result is that date and time, not the time on today's or     *)
(* tomorrow's date.                                                        *)
(***************************************************************************)
C23_FirstMatchWins ==
    \A t \in Tasks :
        ( ParserCalled(t) /\ pc[t] = "returned" )
        => LET text == Arg(t).text
               now == Arg(t).now
               v == ReturnValue(t)
               spans == { i \in DOMAIN text :
                            Followed(text, i, "num", "min") /\ text[i].hl # "plain" }
           IN  /\ spans # {}
                  => /\ IsDatetime(v)
                     /\ v[2].tz = now.tz
                     /\ \E i \in spans :
                           /\ \A j \in spans : i <= j
                           /\ Instant(v[2]) = Instant(now) + 60 * text[i].a
               /\ ( /\ NoEarlierRule(text, Arg(t).is_knuspr)
                    /\ Len(ColorDates(text)) > 0 /\ GoodDate(ColorDates(text)[1])
                    /\ Len(ColorTimes(text)) > 0 /\ GoodTime(ColorTimes(text)[1]) )
                  => IsThisYearAt(v, now, ColorDates(text)[1].a, ColorDates(text)[1].b,
                                  ColorTimes(text)[1].a, ColorTimes(text)[1].b)

\* "<span>45</span> min" followed by a highlighted date and a highlighted
\* time, at 23:50:30 on 31 December 2024: 00:35:30 on 1 January 2025
C23_Witness ==
    \E t \in Tasks :
        /\ ParserCalled(t) /\ pc[t] = "returned"
        /\ Len(Arg(t).text) = 4
        /\ Arg(t).text[1] = Tok("num", "span", 45, 0)
        /\ Arg(t).text[2].k = "min"
        /\ Arg(t).text[3] = Tok("date", "color", 26, 4)
        /\ Arg(t).text[4] = Tok("time", "color", 17, 23)
        /\ Arg(t).now.month = 12
        /\ ReturnValue(t)[2] =
              [ year |-> 2025, month |-> 1, day |-> 1, hour |-> 0, minute |-> 35,
                second |-> 30, tz |-> "Europe/Prague" ]

(***************************************************************************)
(* C24: a text with one time H:MM, highlighted or plain, and no minutes    *)
(* keyword and no date gives today at H:MM in the shop's timezone when     *)
(* that is not before now, and tomorrow at H:MM when it is (09:00 at 10:00 *)
(* gives 09:00 of the next day, 17:23 at 10:00 gives 17:23 of the same     *)
(* day).                                                                   *)
(***************************************************************************)
C24_TimeOnlyTodayOrTomorrow ==
    \A t \in Tasks :
        ( /\ ParserCalled(t) /\ pc[t] = "returned"
          /\ Len(AllTimes(Arg(t).text)) = 1 /\ GoodTime(AllTimes(Arg(t).text)[1])
          /\ ~ HasKind(Arg(t).text, "min") /\ ~ HasKind(Arg(t).text, "date") )
        => IsTodayOrTomorrowAt(ReturnValue(t), Arg(t).now,
                               AllTimes(Arg(t).text)[1].a, AllTimes(Arg(t).text)[1].b)

\* the plain text 9:00 at 10:00 on 15 March 2024: 9:00 on 16 March
C24_Witness ==
    \E t \in Tasks :
        /\ ParserCalled(t) /\ pc[t] = "returned"
        /\ Arg(t).text = << Tok("time", "plain", 9, 0) >>
        /\ Arg(t).now.day = 15 /\ Arg(t).now.hour = 10
        /\ ~ Arg(t).is_knuspr
        /\ ReturnValue(t)[2] =
              [ year |-> 2024, month |-> 3, day |-> 16, hour |-> 9, minute |-> 0,
                second |-> 0, tz |-> "Europe/Prague" ]

(***************************************************************************)
(* C25: a text without any highlighted span that holds a plain number      *)
(* followed by a minutes keyword ("in 55 Minuten") resolves through the    *)
(* plain-text fallback of the relative-minutes rule to now + N minutes     *)
(* (no H:MM stands right in front of a minutes keyword).                   *)
(***************************************************************************)
C25_PlainMinutesFallback ==
    \A t \in Tasks :
        ( /\ ParserCalled(t) /\ pc[t] = "returned"
          /\ \A i \in DOMAIN Arg(t).text :
                /\ Arg(t).text[i].hl = "plain"
                /\ ~ Followed(Arg(t).text, i, "time", "min")
          /\ \E i \in DOMAIN Arg(t).text : Followed(Arg(t).text, i, "num", "min") )
        => /\ IsDatetime(ReturnValue(t))
           /\ \E i \in DOMAIN Arg(t).text :
                 /\ Followed(Arg(t).text, i, "num", "min")
                 /\ Instant(ReturnValue(t)[2]) =
                       Instant(Arg(t).now) + 60 * Arg(t).text[i].a

(***************************************************************************)
(* C26: with the alternate-locale flag, a text with "gegen/um [ca.] H:MM", *)
(* no date and no minutes keyword resolves to the time captured after      *)
(* that keyword, today or tomorrow, also when another H:MM stands          *)
(* elsewhere in the text.                                                  *)
(***************************************************************************)
\* the positions of the times that follow um / gegen [ca.]
AfterUm(text) ==
    { i \in DOMAIN text :
        /\ text[i].k = "time"
        /\ \/ ( i > 1 /\ text[i - 1].k = "um" )
           \/ ( i > 2 /\ text[i - 1].k = "ca" /\ text[i - 2].k = "um" ) }

C26_CapturedTimeIsUsed ==
    \A t \in Tasks :
        ( /\ ParserCalled(t) /\ pc[t] = "returned"
          /\ Arg(t).is_knuspr
          /\ AfterUm(Arg(t).text) # {}
          /\ \A i \in AfterUm(Arg(t).text) : GoodTime(Arg(t).text[i])
          /\ ~ HasKind(Arg(t).text, "min") /\ ~ HasKind(Arg(t).text, "date") )
        => \E i \in AfterUm(Arg(t).text) :
              /\ \A j \in AfterUm(Arg(t).text) : i <= j
              /\ IsTodayOrTomorrowAt(ReturnValue(t), Arg(t).now,
                                     Arg(t).text[i].a, Arg(t).text[i].b)

(***************************************************************************)
(* C27: a highlighted date D.M. and a highlighted time H:MM, without a     *)
(* minutes keyword, give that day, month, hour and minute in the year of   *)
(* now and the shop's timezone; the year is not moved on when that is      *)
(* already past (26.4. and 17:23 on 31 December 2024 give 26 April 2024).  *)
(***************************************************************************)
C27_DateAndTimeInCurrentYear ==
    \A t \in Tasks :
        ( /\ ParserCalled(t) /\ pc[t] = "returned"
          /\ NoEarlierRule(Arg(t).text, Arg(t).is_knuspr)
          /\ Len(ColorDates(Arg(t).text)) > 0 /\ GoodDate(ColorDates(Arg(t).text)[1])
          /\ Len(ColorTimes(Arg(t).text)) > 0 /\ GoodTime(ColorTimes(Arg(t).text)[1]) )
        => /\ ReturnValue(t)[1] = "datetime"
           /\ ReturnValue(t)[2].year = Arg(t).now.year
           /\ ReturnValue(t)[2].tz = Zone(Arg(t).is_knuspr)
           /\ << ReturnValue(t)[2].day, ReturnValue(t)[2].month >> =
                 << ColorDates(Arg(t).text)[1].a, ColorDates(Arg(t).text)[1].b >>
           /\ << ReturnValue(t)[2].hour, ReturnValue(t)[2].minute,
                 ReturnValue(t)[2].second >> =
                 << ColorTimes(Arg(t).text)[1].a, ColorTimes(Arg(t).text)[1].b, 0 >>

\* 26.4. and 17:23 read on 31 December 2024 in the Berlin zone: 26 April
\* 2024, which is past
C27_Witness ==
    \E t \in Tasks :
        /\ ParserCalled(t) /\ pc[t] = "returned"
        /\ Arg(t).text = << Tok("date", "color", 26, 4), Tok("time", "color", 17, 23) >>
        /\ Arg(t).now.month = 12 /\ Arg(t).is_knuspr
        /\ ReturnValue(t)[2] =
              [ year |-> 2024, month |-> 4, day |-> 26, hour |-> 17, minute |-> 23,
                second |-> 0, tz |-> "Europe/Berlin" ]
        /\ Instant(ReturnValue(t)[2]) < Instant(Arg(t).now)

(***************************************************************************)
(* C28: a numeric failure in one rule is a non-match of that rule only.  A *)
(* highlighted date with an impossible day or month (31.2.) next to a      *)
(* valid highlighted time does not raise and resolves through the rule for *)
(* a time alone; an impossible hour or minute (25:00) in every candidate   *)
(* yields null.                                                            *)
(***************************************************************************)
C28_NumericFailureFallsThrough ==
    \A t \in Tasks :
        ( /\ ParserCalled(t)
          /\ ~ HasKind(Arg(t).text, "esc_bad")
          /\ NoEarlierRule(Arg(t).text, Arg(t).is_knuspr) )
        => /\ pc[t] = "returned"
           /\ ( /\ Len(ColorDates(Arg(t).text)) > 0
                /\ ~ GoodDate(ColorDates(Arg(t).text)[1])
                /\ Len(ColorTimes(Arg(t).text)) > 0
                /\ GoodTime(ColorTimes(Arg(t).text)[1]) )
              => IsTodayOrTomorrowAt(ReturnValue(t), Arg(t).now,
                                     ColorTimes(Arg(t).text)[1].a,
                                     ColorTimes(Arg(t).text)[1].b)
           /\ ( /\ Len(AllTimes(Arg(t).text)) > 0
                /\ \A i \in DOMAIN AllTimes(Arg(t).text) :
                      ~ GoodTime(AllTimes(Arg(t).text)[i]) )
              => ReturnValue(t) = NULL

\* 31.2. and 17:23, both highlighted, at 10:00 on 15 March 2024: 17:23 of
\* that day
C28_Witness ==
    \E t \in Tasks :
        /\ ParserCalled(t) /\ pc[t] = "returned"
        /\ Arg(t).text = << Tok("date", "color", 31, 2), Tok("time", "color", 17, 23) >>
        /\ Arg(t).now.day = 15 /\ ~ Arg(t).is_knuspr
        /\ ReturnValue(t)[2] =
              [ year |-> 2024, month |-> 3, day |-> 15, hour |-> 17, minute |-> 23,
                second |-> 0, tz |-> "Europe/Prague" ]

(***************************************************************************)
(* C29: the update sensor polls at a dynamic interval.  After an update in *)
(* which the delivery window of the next order starts between 0 and 2      *)
(* hours from now, the periodic timer runs at the 2-minute interval; after *)
(* an update in which that does not hold, at the 10-minute interval.       *)
(***************************************************************************)
\* the intervals of the timers that are running
ActiveIntervals == { timers[i].interval : i \in { j \in DOMAIN timers : timers[j].active } }

\* the first upcoming order starts within two hours from now
StartsWithinTwoHours(list) ==
    /\ list # NULL /\ Len(list[2]) > 0
    /\ "since" \in DOMAIN list[2][1]
    /\ list[2][1].since[1] = "in"
    /\ list[2][1].since[2] \in 0..7200

C29_IntervalFollowsDelivery ==
    \A t \in Tasks :
        ( sensorpc[t] = "done" /\ ActiveIntervals # {} )
        => ActiveIntervals =
              { IF StartsWithinTwoHours(next_order_list[t]) THEN 120 ELSE 600 }

(***************************************************************************)
(* C31: if get_data() raises during RohlikAccount.async_update(), the      *)
(* stored snapshot is left exactly as it was before the call and no        *)
(* registered callback is invoked.                                         *)
(***************************************************************************)
\* async_update() ended with the exception of get_data(): nobody was notified
C31_NoneNotified ==
    \A t \in Tasks :
        ( hubop[t] = "async_update" /\ hubpc[t] = "raised" /\ pc[t] = "raised" )
        => /\ notified[t] = << >>
           /\ hubexc[t] = exc[t]

\* every step of async_update() from the call to the exception of
\* get_data() leaves the snapshot as it is
C31_Step ==
    \A t \in Tasks :
        ( /\ hubop'[t] = "async_update"
          /\ hubpc'[t] = "update" \/ ( hubpc'[t] = "raised" /\ pc'[t] = "raised" ) )
        => data' = data

C31_FailedRefreshKeepsSnapshot == [] C31_NoneNotified /\ [][C31_Step]_vars

\* the second refresh failed with subscribers registered and a snapshot
\* stored by the first
C31_Witness ==
    \E t \in Tasks :
        /\ hubop[t] = "async_update" /\ hubpc[t] = "raised" /\ pc[t] = "raised"
        /\ calls = 2
        /\ data # EmptyMap
        /\ callbacks # {}

(***************************************************************************)
(* C32: search_and_add returns success = true with a non-empty             *)
(* added_to_cart only when the first search result was added to the cart:  *)
(* its cart POST succeeded and its id is in added_products of add_to_cart. *)
(***************************************************************************)
\* what search_and_add of task t returned
SearchAndAddReturned(t) ==
    hubop[t] = "search_and_add" /\ hubpc[t] = "returned" /\ hubret[t][1] = "returned"

C32_SuccessMeansAdded ==
    \A t \in Tasks :
        ( /\ SearchAndAddReturned(t)
          /\ hubret[t][2][2].success
          /\ hubret[t][2][2].added_to_cart # << >> )
        => \E i \in DOMAIN hubresult[t][3].added_products :
              hubresult[t][3].added_products[i] = hubret[t][2][2].added_to_cart[1].id

(***************************************************************************)
(* C34: after add_to_cart() or delete_from_cart() of the account whose     *)
(* call of the client returned, the snapshot is refreshed by one           *)
(* get_data() and the subscribers are notified before the method returns;  *)
(* if the call of the client raised, there is no refresh and no            *)
(* notification.                                                           *)
(***************************************************************************)
\* task t is in add_to_cart() or delete_from_cart() of the account
HubChange(t) == hubop[t] \in {"add_to_cart", "delete_from_cart"}

\* the elements of a sequence
Range(seq) == { seq[i] : i \in DOMAIN seq }

\* the method returns: the step stores the mapping of a get_data() that the
\* method ran after the change, with one login, calls every subscriber
\* once, and hands back the result of the client
C34_ReturnStep ==
    \A t \in Tasks :
        ( HubChange(t) /\ hubpc[t] # "returned" /\ hubpc'[t] = "returned" )
        => /\ op[t] = "get_data" /\ pc[t] = "returned"
           /\ Cardinality(RequestsFor(t, "login")) = 1
           /\ data' = ret[t][2]
           /\ Range(notified'[t]) = callbacks
           /\ Len(notified'[t]) = Cardinality(callbacks)
           /\ hubret'[t] = hubresult[t]

\* the call of the client raised: the method ends with that exception,
\* without a get_data(), with the snapshot as it was and nobody notified
C34_RaiseStep ==
    \A t \in Tasks :
        ( /\ HubChange(t) /\ hubpc[t] = "change" /\ hubpc'[t] # "change"
          /\ pc[t] = "raised" )
        => /\ hubpc'[t] = "raised"
           /\ hubexc'[t] = exc[t]
           /\ op'[t] = op[t] /\ op[t] # "get_data"
           /\ sessState' = sessState
           /\ data' = data
           /\ notified'[t] = << >>

\* until the call of the client has ended the snapshot stays and nobody is
\* notified
C34_ChangeStep ==
    \A t \in Tasks :
        ( HubChange(t) /\ hubpc'[t] = "change" )
        => data' = data /\ notified'[t] = << >>

C34_RefreshBeforeReturn == [][C34_ReturnStep /\ C34_RaiseStep /\ C34_ChangeStep]_vars

\* add_to_cart() of the account returned with two subscribers notified and
\* the snapshot of its refresh stored
C34_Witness ==
    \E t \in Tasks :
        /\ hubop[t] = "add_to_cart" /\ hubpc[t] = "returned"
        /\ Len(notified[t]) = 2
        /\ data = ret[t][2]
        /\ hubret[t][2].added_products # << >>

(***************************************************************************)
(* C36: each top-level operation of the client (get_data, add_to_cart,     *)
(* search_product, get_shopping_list, get_cart_content, delete_from_cart)  *)
(* issues exactly one login request on its session, before its data        *)
(* requests.                                                               *)
(***************************************************************************)
ClientOperations ==
    { "get_data", "add_to_cart", "search_product", "get_shopping_list",
      "get_cart_content", "delete_from_cart" }

C36_OneLoginPerOperation ==
    \A t \in Tasks :
        op[t] \in ClientOperations
        => \A i \in DOMAIN reqs[t] :
              /\ reqs[t][i].sid = session[t]
              /\ reqs[t][i].kind = "login" <=> i = 1

(***************************************************************************)
(* C37: on one client, user_id and address_id are write-once.  Once a      *)
(* login stored a non-null value, no later login changes or clears it,     *)
(* whatever the later login replies hold; and the request for the delivery *)
(* slots of every later get_data() carries those first stored values.      *)
(***************************************************************************)
C37_KeepStep ==
    /\ user_id # NULL => user_id' = user_id
    /\ address_id # NULL => address_id' = address_id

\* the request for next_delivery_slot carries the ids the client holds
C37_SlotRequestUsesStored ==
    \A t \in Tasks :
        op[t] = "get_data"
        => \A i \in DOMAIN reqs[t] :
              reqs[t][i].kind = "next_delivery_slot"
              => reqs[t][i].params = << user_id, address_id >>

C37_IdsWriteOnce == [] C37_SlotRequestUsesStored /\ [][C37_KeepStep]_vars

\* the second get_data() logged in as another user with another address and
\* requested the delivery slots with the ids of the first login
C37_Witness ==
    \E t \in Tasks :
        /\ calls = 2
        /\ op[t] = "get_data" /\ LoginOk(t)
        /\ login_response[t].user \in UserIds \ {user_id}
        /\ login_response[t].address \in AddressIds \ {address_id}
        /\ Requested(t, "next_delivery_slot")

(***************************************************************************)
(* C38: the update sensor has at most one active periodic timer at any     *)
(* time.  Every (re)schedule cancels the timer in use before it creates    *)
(* the new one, and after the sensor was removed no timer of it is active. *)
(***************************************************************************)
ActiveTimers == { i \in DOMAIN timers : timers[i].active }

\* the entity was added and removed again
Removed == unsub_timer # NULL /\ AsyncWriteHaState \notin callbacks

C38_AtMostOne ==
    /\ Cardinality(ActiveTimers) <= 1
    /\ \A i \in ActiveTimers : unsub_timer = << "timer", i >>
    /\ Removed => ActiveTimers = {}

\* a step that creates a timer leaves none of the earlier timers active
C38_ScheduleStep ==
    Len(timers') > Len(timers)
    => /\ Len(timers') = Len(timers) + 1
       /\ \A i \in DOMAIN timers : ~ timers'[i].active
       /\ timers'[Len(timers')].active
       /\ unsub_timer' = << "timer", Len(timers') >>

C38_OneActiveTimer == [] C38_AtMostOne /\ [][C38_ScheduleStep]_vars

\* the sensor was removed while an update was under way, and the update
\* finished afterwards with a delivery within two hours
C38_Witness ==
    \E t \in Tasks :
        /\ Removed
        /\ sensorpc[t] = "done"
        /\ StartsWithinTwoHours(next_order_list[t])
        /\ Len(timers) = 1 /\ ~ timers[1].active

(***************************************************************************)
(* C39: whenever extract_delivery_datetime resolves a time alone (a        *)
(* highlighted span or a plain H:MM), the instant it returns is not before *)
(* now and at most 24 hours after now, shifts of daylight saving aside.    *)
(***************************************************************************)
\* only the rules for a time alone can return a value: the text has no
\* minutes keyword and no date that is a day of the year
OnlyTimeRules(text) ==
    /\ ~ HasKind(text, "min")
    /\ \A i \in DOMAIN text : text[i].k = "date" => ~ GoodDate(text[i])

C39_TimeOnlyWithinOneDay ==
    \A t \in Tasks :
        ( /\ ParserCalled(t) /\ pc[t] = "returned"
          /\ OnlyTimeRules(Arg(t).text)
          /\ ReturnValue(t) # NULL )
        => /\ IsDatetime(ReturnValue(t))
           /\ Instant(Arg(t).now) <= Instant(ReturnValue(t)[2])
           /\ Instant(ReturnValue(t)[2]) <= Instant(Arg(t).now) + 86400

\* 9:00 read at 23:50:30 on 31 December 2024, next to the date 31.2.: 9:00
\* on 1 January 2025
C39_Witness ==
    \E t \in Tasks :
        /\ ParserCalled(t) /\ pc[t] = "returned"
        /\ Arg(t).text = << Tok("date", "color", 31, 2), Tok("time", "plain", 9, 0) >>
        /\ Arg(t).now.month = 12
        /\ ReturnValue(t)[1] = "datetime"
        /\ << ReturnValue(t)[2].year, ReturnValue(t)[2].month, ReturnValue(t)[2].day,
              ReturnValue(t)[2].hour, ReturnValue(t)[2].minute >> = << 2025, 1, 1, 9, 0 >>

(***************************************************************************)
(* Two tasks on the facade side by side: the periodic async_update() of    *)
(* the update sensor and a service call that changes the cart and          *)
(* refreshes after it.  Their steps interleave at the awaits.  The login   *)
(* succeeds, with or without an address, and a request is answered or      *)
(* fails in transport.                                                     *)
(***************************************************************************)
OverlapLoginReplies ==
    { r \in LoginBodies :
        /\ r.status = 200 /\ r.user = << "user", 11 >>
        /\ r.address \in { << "address", 21 >>, MISSING } }

OverlapCarts == { c \in HubCarts : Len(Get(c, "items", << >>)) = 0 }

OverlapNext ==
    \E t \in Tasks :
        \/ AsyncUpdateStart(t)
        \/ \E reply \in OverlapLoginReplies : GetDataLogin(t, reply)
        \/ GetDataSkip(t)
        \/ GetDataEndpoint(t, "ok")
        \/ \E reply \in HubReplies, cart_data \in OverlapCarts : GetDataCart(t, reply, cart_data)
        \/ GetDataClose(t)
        \/ AsyncUpdatePublish(t)
        \/ HubRaise(t)
        \/ HubAddToCart(t, 101, 1)
        \/ \E reply \in OverlapLoginReplies : AddToCartLogin(t, reply)
        \/ \E reply \in HubReplies : AddToCartPost(t, reply)
        \/ AddToCartClose(t)
        \/ \E id \in OrderFieldIds : HubDeleteFromCart(t, id)
        \/ \E reply \in OverlapLoginReplies : DeleteLogin(t, reply)
        \/ \E reply \in HubReplies : DeleteRequest(t, reply, 200)
        \/ DeleteClose(t)
        \/ HubRefresh(t)

OverlapSpec == Init /\ [][OverlapNext]_vars

\* every call of the facade has returned, a change of the cart among them
AllCompleted ==
    /\ \A t \in Tasks : hubpc[t] = "returned"
    /\ \E t \in Tasks : HubChange(t)

DefaultBaseUrl == << "https://www.", "rohlik.cz" >>

\* the values SITE_OPTIONS[data[CONF_SITE]] evaluates to
BaseUrls ==
    { DefaultBaseUrl, << "https://www.", "rohlik.cz", "/" >>,
      << "https://www.", "knuspr.de" >> }

\* "knuspr.de" in base_url
IsKnuspr(base_url) == \E i \in DOMAIN base_url : base_url[i] = "knuspr.de"

RECURSIVE RStrip(_)
\* base_url.rstrip("/")
RStrip(base_url) ==
    IF base_url # << >> /\ base_url[Len(base_url)] = "/"
    THEN RStrip(SubSeq(base_url, 1, Len(base_url) - 1))
    ELSE base_url

\* the data of the entry: CONF_BASE_URL next to the credentials
Entry(base_url) == << "entry", [ base_url |-> base_url ] >>

\* RohlikAccount.__init__(hass, username, password, base_url), with the
\* _base_url of the client it constructs
RohlikAccount(base_url) ==
    << "account", [ base_url |-> base_url,
                    is_knuspr |-> IsKnuspr(base_url),
                    api_base_url |-> RStrip(base_url) ] >>

\* RohlikCZAPI.__init__: a client of its own, without stored ids
NewClient == user_id' = NULL /\ address_id' = NULL

\* the invocation of task t is the get_data() of validate_input
Validating(t) == op[t] = "get_data" /\ args[t][1] = "validate_input"

\* async_step_user(user_input) up to its first await: validate_input builds
\* a client for the chosen site and calls its get_data()
ValidateInput(t, base_url) ==
    /\ entry = NULL
    /\ pc[t] \in {"idle"} \cup Ended /\ hubpc[t] = "idle"
    /\ calls < MaxCalls
    /\ calls' = calls + 1
    /\ Invoke(t, "get_data", Args("validate_input", [ base_url |-> base_url ]),
              "login", NoExc)
    /\ NewClient
    /\ UNCHANGED << hubVars, sensorVars, entry, account, behind >>

\* get_data() returned: the title is read from the reply, and
\* async_create_entry stores the data; without a name in the reply the
\* KeyError is caught and the form is shown again
AsyncStepUserReturn(t, named) ==
    /\ Validating(t) /\ pc[t] = "returned"
    /\ pc' = [ pc EXCEPT ![t] = "idle" ]
    /\ entry' = IF named THEN Entry(Arg(t).base_url) ELSE entry
    /\ UNCHANGED << clientVars, sessState, calls, op, session, idx, result, reqs, exc,
                    ret, login_response, opVars, hubVars, sensorVars, account, behind >>

\* get_data() raised: except InvalidCredentialsError, except Exception; the
\* form is shown again
AsyncStepUserError(t) ==
    /\ Validating(t) /\ pc[t] = "raised"
    /\ pc' = [ pc EXCEPT ![t] = "idle" ]
    /\ UNCHANGED << clientVars, sessState, calls, op, session, idx, result, reqs, exc,
                    ret, login_response, opVars, hubVars, sensorVars, setupVars, behind >>

\* async_setup_entry(hass, entry) up to its first await: the account is
\* constructed from the entry's e-mail and password, then account.async_update()
AsyncSetupEntry(t) ==
    /\ entry # NULL /\ account = NULL
    /\ HubCall(t, "async_update", NoArgs, "update")
    /\ Invoke(t, "get_data", NoArgs, "login", NoExc)
    /\ NewClient
    /\ account' = RohlikAccount(DefaultBaseUrl)
    /\ UNCHANGED << sensorVars, entry, behind >>

SetupNext ==
    \E t \in SeqTasks :
        \/ \E base_url \in BaseUrls : ValidateInput(t, base_url)
        \/ \E named \in BOOLEAN : AsyncStepUserReturn(t, named)
        \/ AsyncStepUserError(t)
        \/ AsyncSetupEntry(t)
        \/ \E reply \in HubLoginReplies : GetDataLogin(t, reply)
        \/ GetDataSkip(t)
        \/ \E reply \in HubReplies : GetDataEndpoint(t, reply)
        \/ \E reply \in HubReplies, cart_data \in HubCarts : GetDataCart(t, reply, cart_data)
        \/ GetDataClose(t)
        \/ AsyncUpdatePublish(t)
        \/ HubRaise(t)

SetupSpec == Init /\ [][SetupNext]_vars

\* the base URL in front of the path of every request of the account's client
RequestBase == account[2].api_base_url

\* the account's client has sent a request
AccountRequested ==
    /\ account # NULL
    /\ \E t \in Tasks : hubpc[t] # "idle" /\ reqs[t] # << >>

\* C35: every request of an account goes to the base URL chosen in the config
\* flow, and the account's is_knuspr flag is that of the chosen base URL: an
\* account configured for the secondary shop is set up with that shop's URL
C35_RequestsGoToConfiguredBase ==
    AccountRequested =>
        /\ RequestBase = RStrip(entry[2].base_url)
        /\ account[2].is_knuspr = IsKnuspr(entry[2].base_url)

====
